---- MODULE Spec2Model ----
(***************************************************************************)
(* sensor-hub: the SQLite buffer (lib/database) and its callers.           *)
(*                                                                         *)
(* SpecDb   : one caller of a DatabaseBase instance (a FootDatabase or an  *)
(*            AccelDatabase) making its calls one after another.           *)
(* SpecLock : several callers of one instance, under the instance lock.    *)
(* SpecSend : DataSenderBase.send_batch on every batch, socket state and   *)
(*            webhook configuration.                                       *)
(* Spec     : the sender process (run_forever) and a capture thread on one *)
(*            buffer, with the network coming and going.                   *)
(* SpecFair : Spec with the sender loop scheduled fairly.                  *)
(* SpecDrain, SpecSkip : the sender draining a buffer; rows that raise.    *)
(* SpecSkipFair : SpecSkip with the sender loop scheduled fairly.          *)
(* SpecSocket : SocketIOClient, its event handlers and its owner's calls.  *)
(*                                                                         *)
(* firefighter-server: the VectorStore (lib/vector_store) and its callers. *)
(*                                                                         *)
(* SpecStore   : add_reading and flush_session, one call at a time.        *)
(* SpecThreads : the same calls statement by statement in handler threads. *)
(* SpecStream  : one session fed a steady foot stream.                     *)
(* SpecBurst   : one session fed a fast burst of foot and inertial         *)
(*               readings.                                                 *)
(* SpecEncode  : _store_window and _window_to_vector on every window.      *)
(* SpecIndex   : get_session_data and delete_session, page by page.        *)
(* SpecApi     : update_labels and the query and delete routes.            *)
(* SpecServer  : the reading handlers and the session routes of server.py. *)
(***************************************************************************)
EXTENDS Integers, Sequences, FiniteSets, TLC

\* ------------------------------------------------------------------ bounds
\* Rows ever inserted into the readings table (ids 1..MaxId).
MaxId == 3
\* SenderConfig.max_records as configured (SENDER_MAX_RECORDS).
max_records == 2
\* Consecutive failed batches followed.
MaxFailures == 6
\* Readings the server receives.
MaxReadings == 3
\* Instants, a quarter of a second apart, that a timestamp or the server's
\* clock can show: 0, 250, .., 250 * MaxTicks milliseconds.
MaxTicks == 2
\* Readings of the steady foot stream.
MaxStream == 14
\* Foot readings, and inertial readings, of a window to encode.
MaxFoot == 11
MaxAccel == 11
\* Full pages of a session's points in the collection, and the points of
\* another session among them.
Pages == 2
OtherPoints == 3
\* Points in the collection the API is called on, and the largest limit of
\* a similarity query.
MaxIndexed == 3
MaxLimit == 1
\* Readings of the burst, and the points stored before no further flush
\* is followed.
MaxBurst == 23
MaxBurstPoints == 2
\* Sessions created at the server, and readings it receives meanwhile.
MaxSessions == 2
MaxReceived == 2
\* Events the owner of the socket client emits.
MaxEmits == 3

\* --------------------------------------------------------------- constants
\* delete_sent(older_than_hours=24): the retention, in hours.
older_than_hours == 24
\* SenderConfig defaults, in seconds.
polling_interval == 30
retry_backoff_base == 60
max_backoff == 3600
\* QdrantConfig.window_size_ms
window_size_ms == 500
\* _window_to_vector: the readings of a stream that are encoded, the values
\* of a foot reading and of an inertial reading, the lengths of the two
\* segments.
RecentReadings == 10
FootValues == 18
AccelValues == 9
FootSegment == 180
AccelSegment == 90
\* get_session_data, delete_session: client.scroll(limit=100)
scroll_limit == 100

VARIABLES
    table,      \* the readings table: id -> [sent, age, ok]
    seq,        \* sqlite_sequence: the largest id AUTOINCREMENT has assigned
    lock,       \* DatabaseBase._lock: the caller holding it, or NoOne
    cpc,        \* per caller: "idle", or the call whose with-block it is in
    ret,        \* what the most recently completed database call returned
    removed,    \* history: the rows DELETEd so far, with their sent flag
    socket_client,  \* DataSenderBase.socket_client: "client" or "None"
    connected,  \* SocketIOClient._connected
    sioUp,      \* whether sio.emit goes through (the transport is connected)
    webhook_urls,   \* SenderConfig.webhook_urls, in configured order
    hookUp,     \* per URL: whether its server answers 200, 201 or 202
    spc,        \* where the sender is in run_forever
    rows,       \* process_batch: the ids of the rows fetch_batch returned
    record_ids, \* process_batch: the ids of the rows it transformed
    success,    \* what send_batch / process_batch last returned
    consecutive_failures,   \* DataSenderBase._consecutive_failures
    slept,      \* the delay of the time.sleep in progress or just done, else 0
    acked,      \* history: ids of the batches send_batch reported delivered
    streak,     \* history: failed batches since the last delivered one
    sendLog,    \* history: the emits and posts of the last send_batch
    windows,    \* the SensorWindow objects alive: window -> its fields
    active_windows, \* VectorStore._active_windows: session_id -> window
    nwin,       \* the SensorWindow objects made so far
    nread,      \* the readings received so far
    points,     \* the points in the Qdrant collection, in upsert order
    clock,      \* time.time() * 1000 at the server
    vret,       \* what the most recently completed VectorStore call returned
    thr,        \* per handler thread: where it is in its VectorStore call
    vector_dimension,   \* QdrantConfig.vector_dimension, as loaded
    window,     \* the SensorWindow handed to _store_window, readings in full
    stored,     \* the PointStruct _store_window upserted for it, or NoPoint
    ipc,        \* where the caller of the index is in its call
    iret,       \* what the most recently completed index call returned
    repo,       \* the sessions table: the ids of the sessions it holds
    authenticated,  \* SocketIOClient._authenticated
    auth,       \* the authenticate exchange of the connection: how far it is
    wire,       \* history: the events emit handed to sio.emit, a count
    eret,       \* what the most recently completed SocketIOClient call returned
    current_session_id, \* server.current_session_id, NoSession for None
    session_status, \* the sessions table: session id -> status
    nsess,      \* the sessions repo.create has made so far
    req,        \* the REST request in progress at the server, if any
    hnd,        \* the reading handler in progress at the server, if any
    emitted     \* history: the readings broadcast to the live clients, a count

dbVars == <<table, seq, removed>>
callVars == <<lock, cpc, ret>>
netVars == <<socket_client, connected, sioUp, webhook_urls, hookUp>>
senderVars == <<spc, rows, record_ids, success, consecutive_failures, slept,
                acked, streak>>
clientVars == <<authenticated, auth, wire, eret>>
hubVars == <<table, seq, removed, lock, cpc, ret, socket_client, connected,
             sioUp, webhook_urls, hookUp, spc, rows, record_ids, success,
             consecutive_failures, slept, acked, streak, sendLog, clientVars>>
indexVars == <<vector_dimension, window, stored, ipc, iret, repo>>
sessionVars == <<current_session_id, session_status, nsess, req, hnd, emitted>>
serverVars == <<windows, active_windows, nwin, nread, points, clock, vret, thr,
                indexVars, sessionVars>>
vars == <<hubVars, serverVars>>

\* ------------------------------------------------------------------ helpers
\* The handler threads of the server.
Threads == {"t1", "t2"}

\* A handler thread in no VectorStore call.
Free ==
    [pc |-> "free", op |-> "", sid |-> "", sensor_type |-> "", n |-> 0,
     ts |-> 0, window |-> 0, point |-> 0]

\* QdrantConfig.vector_dimension: int = 270
DefaultDimension == 270

\* A SensorWindow with no reading.
EmptyWindow ==
    [session_id |-> "", start_time |-> 0, end_time |-> 0,
     foot_readings |-> <<>>, accel_readings |-> <<>>]

\* No point: nothing upserted.
NoPoint == [id |-> 0, vector |-> [arr |-> <<>>, over2 |-> 1], session_id |-> "",
            foot_count |-> 0, accel_count |-> 0]

\* No index call in progress, none made.
NoCall == [op |-> "idle", sid |-> "", offset |-> 0, results |-> <<>>]
NoResult ==
    [op |-> "init", sid |-> "", status |-> 200, val |-> <<>>, count |-> 0]

\* current_session_id: str = None
NoSession == ""

\* No REST request in progress; no reading handler in progress.
NoRequest == [op |-> "none", sid |-> NoSession, status |-> 0, stopped |-> <<>>]
HandlerFree ==
    [pc |-> "free", sensor_type |-> "", reading |-> [parses |-> TRUE, ts |-> 0],
     sid |-> NoSession]

\* The server's session state at its start on an empty sessions table:
\* no session current, no request and no reading being handled.
NoSessions ==
    /\ current_session_id = NoSession
    /\ nsess = 0
    /\ req = NoRequest
    /\ hnd = HandlerFree
    /\ emitted = 0

\* The configuration as it is by default, nothing encoded, the index not
\* called.
NoIndex ==
    /\ vector_dimension = DefaultDimension
    /\ window = EmptyWindow
    /\ stored = NoPoint
    /\ ipc = NoCall
    /\ iret = NoResult
    /\ repo = {}
    /\ session_status = <<>>

\* No VectorStore call made yet: VectorStore.__init__, the server's clock
\* at its start, every handler thread free.
NoStore ==
    /\ windows = <<>>
    /\ active_windows = <<>>
    /\ nwin = 0
    /\ nread = 0
    /\ clock = 0
    /\ vret = [op |-> "init", sid |-> "", sensor_type |-> "",
               reading |-> [parses |-> TRUE, ts |-> 0],
               point |-> 0, raised |-> FALSE]
    /\ thr = [t \in Threads |-> Free]
    /\ NoSessions

\* The server just started.
NoServer == NoStore /\ points = <<>> /\ NoIndex

Min(a, b) == IF a <= b THEN a ELSE b

Least(S) == CHOOSE x \in S : \A y \in S : x <= y

Ids == 1..MaxId

\* ------------------------------------------------- the table, as SQL sees it
\* A row's age is the time since its timestamp, in hours.  Time passes in
\* steps longer than the retention, so an age is 0 or Aged.
Aged == older_than_hours + 1

\* transform_for_send raises on no row that FootDatabase.save_record or
\* AccelDatabase.save_record wrote: values_json is json.dumps output.
Transformable == {TRUE}

\* INSERT INTO <table> (...) VALUES (...): the id from AUTOINCREMENT, sent by
\* its DEFAULT 0, the timestamp the reading's own (taken at capture).
InsertRow(t, id, ok) ==
    [i \in DOMAIN t \cup {id} |->
        IF i = id THEN [sent |-> FALSE, age |-> 0, ok |-> ok] ELSE t[i]]

\* WHERE sent = 0
Unsent(t) == {i \in DOMAIN t : ~t[i].sent}

\* ORDER BY id LIMIT n over a set of ids: the n smallest, ascending; a
\* negative LIMIT is no limit.
RECURSIVE OrderByIdLimit(_, _)
OrderByIdLimit(S, n) ==
    IF S = {} \/ n = 0 THEN <<>>
    ELSE LET m == Least(S) IN <<m>> \o OrderByIdLimit(S \ {m}, n - 1)

\* SELECT * FROM <table> WHERE sent = 0 ORDER BY id LIMIT ?  (the rows' ids)
SelectUnsentNoFilter(t, limit) == OrderByIdLimit(DOMAIN t, limit)
SelectUnsent(t, limit) == OrderByIdLimit(Unsent(t), limit)

\* UPDATE <table> SET sent = 1 WHERE id IN (...)
UpdateSentToggle(t, ids) ==
    [i \in DOMAIN t |-> IF i \in ids THEN [t[i] EXCEPT !.sent = ~t[i].sent] ELSE t[i]]
UpdateSentAssign(t, ids) ==
    [i \in DOMAIN t |-> [t[i] EXCEPT !.sent = (i \in ids)]]
UpdateSent(t, ids) ==
    [i \in DOMAIN t |-> IF i \in ids THEN [t[i] EXCEPT !.sent = TRUE] ELSE t[i]]

\* DELETE FROM <table> WHERE sent = 1
\*   AND datetime(timestamp) < datetime('now', '-<hours> hours')
DeleteOldAnySent(t, hours) ==
    LET keep == {i \in DOMAIN t : ~(t[i].age > hours)}
    IN [i \in keep |-> t[i]]
DeleteOld(t, hours) ==
    LET keep == {i \in DOMAIN t : ~(t[i].sent /\ t[i].age > hours)}
    IN [i \in keep |-> t[i]]

\* SELECT COUNT(*) FROM <table> WHERE sent = 0
CountUnsent(t) == Cardinality(Unsent(t))

\* SELECT COUNT(*) FROM <table>
CountTotal(t) == Cardinality(DOMAIN t)

\* The rows a statement took out of the table, with the flag each had.
Gone(t, t2) == {[id |-> i, sent |-> t[i].sent] : i \in DOMAIN t \ DOMAIN t2}

\* ------------------------------------------------------- the instance lock
NoOne == "none"
Callers == {"c1", "c2"}
Ops == {"save_record", "fetch_batch", "mark_sent", "delete_sent", "count_unsent"}
Raised == "raised"
Idle == [at |-> "idle", op |-> "none", behind |-> FALSE]

\* threading.Lock: `with self._lock` goes on only when no one holds it.
LockIgnored(l) == TRUE
LockFree(l) == l = NoOne

\* The call whose with-block holds the lock now.
HeldFor == IF lock \in Callers THEN cpc[lock].op ELSE "none"

\* History: this fetch_batch was called while a mark_sent held the lock.
Behind(op) == op = "fetch_batch" /\ HeldFor = "mark_sent"

\* Caller c calls op and reaches `with self._lock:`.
Call(c, op) ==
    /\ cpc[c].at = "idle"
    /\ op = "save_record" => seq < MaxId
    /\ cpc' = [cpc EXCEPT ![c] = [at |-> "wait", op |-> op, behind |-> Behind(op)]]
    /\ UNCHANGED <<dbVars, lock, ret, netVars, senderVars, sendLog, clientVars,
                   serverVars>>

\* `with self._lock:` entered by caller c.
Enter(c) ==
    /\ cpc[c].at = "wait"
    /\ LockFree(lock)
    /\ lock' = c
    /\ cpc' = [cpc EXCEPT ![c].at = "in"]
    /\ UNCHANGED <<dbVars, ret, netVars, senderVars, sendLog, clientVars,
                   serverVars>>

In(c, op) == cpc[c].at = "in" /\ cpc[c].op = op

\* The with-block left: the connection closed, the lock released.
Leave(c, val) ==
    /\ lock' = NoOne
    /\ cpc' = [cpc EXCEPT ![c] = Idle]
    /\ ret' = [op |-> cpc[c].op, val |-> val, behind |-> cpc[c].behind,
              same |-> table' = table]
    /\ UNCHANGED <<netVars, senderVars, sendLog, clientVars,
                   serverVars>>

\* save_record: INSERT and commit; an sqlite3 error is caught, nothing is
\* written and False is returned.
save_record(c) ==
    /\ In(c, "save_record")
    /\ \/ /\ seq < MaxId
          /\ \E ok \in Transformable :
                table' = InsertRow(table, seq + 1, ok)
          /\ seq' = seq + 1
          /\ removed' = removed \cup Gone(table, table')
          /\ Leave(c, TRUE)
       \/ /\ UNCHANGED dbVars
          /\ Leave(c, FALSE)

\* fetch_batch(limit): the SELECT; an sqlite3 error propagates.
fetch_batch(c) ==
    /\ In(c, "fetch_batch")
    /\ UNCHANGED dbVars
    /\ \E limit \in 0..(MaxId + 1) :
          \/ Leave(c, SelectUnsent(table, limit))
          \/ Leave(c, Raised)

\* mark_sent([]) returns True before the lock is taken.
mark_sent_empty(c) ==
    /\ cpc[c].at = "idle"
    /\ ret' = [op |-> "mark_sent", val |-> TRUE, behind |-> FALSE, same |-> TRUE]
    /\ UNCHANGED <<dbVars, lock, cpc, netVars, senderVars, sendLog, clientVars,
                   serverVars>>

\* mark_sent(record_ids), record_ids not empty: the UPDATE and commit;
\* an sqlite3 error is caught, nothing is written and False is returned.
mark_sent(c) ==
    /\ In(c, "mark_sent")
    /\ \E ids \in (SUBSET Ids) \ {{}} :
          \/ /\ table' = UpdateSent(table, ids)
             /\ removed' = removed \cup Gone(table, table')
             /\ seq' = seq
             /\ Leave(c, TRUE)
          \/ /\ UNCHANGED dbVars
             /\ Leave(c, FALSE)

\* delete_sent(older_than_hours): the DELETE and commit, returning
\* cursor.rowcount; an sqlite3 error is caught and 0 is returned.
delete_sent(c) ==
    /\ In(c, "delete_sent")
    /\ \/ /\ table' = DeleteOld(table, older_than_hours)
          /\ removed' = removed \cup Gone(table, table')
          /\ seq' = seq
          /\ Leave(c, Cardinality(DOMAIN table \ DOMAIN table'))
       \/ /\ UNCHANGED dbVars
          /\ Leave(c, 0)

count_unsent(c) ==
    /\ In(c, "count_unsent")
    /\ UNCHANGED dbVars
    /\ \/ Leave(c, CountUnsent(table))
       \/ Leave(c, Raised)

\* More than the retention passes: every row in the table is now older.
Tick ==
    /\ \E i \in DOMAIN table : table[i].age < Aged
    /\ table' = [i \in DOMAIN table |-> [table[i] EXCEPT !.age = Aged]]
    /\ UNCHANGED <<seq, removed, callVars, netVars, senderVars, sendLog, clientVars,
                   serverVars>>

\* DatabaseBase.__init__ on a new file: an empty table, the lock free.
InitTable ==
    /\ table = <<>>
    /\ seq = 0
    /\ removed = {}
    /\ lock = NoOne
    /\ cpc = [c \in Callers |-> Idle]
    /\ ret = [op |-> "init", val |-> TRUE, behind |-> FALSE, same |-> TRUE]

Urls == {"u1", "u2"}

\* No SocketIOClient call made yet.
NoEmit == [op |-> "init", was_connected |-> FALSE, val |-> TRUE, sent |-> 0]

\* SocketIOClient.__init__ (_authenticated = False) and, when connect() got
\* through, on_connect: the authenticate message is on its way.
ClientStarted ==
    /\ authenticated = FALSE
    /\ auth = IF connected THEN "sent" ELSE "none"
    /\ wire = 0
    /\ eret = NoEmit

\* No sender constructed: DataSenderBase.__init__ not run.
SenderOff ==
    /\ socket_client = "None"
    /\ connected = FALSE
    /\ sioUp = FALSE
    /\ webhook_urls = <<>>
    /\ hookUp = [u \in Urls |-> FALSE]
    /\ spc = "none"
    /\ rows = <<>>
    /\ record_ids = <<>>
    /\ success = TRUE
    /\ consecutive_failures = 0
    /\ slept = 0
    /\ acked = {}
    /\ streak = 0
    /\ sendLog = <<>>
    /\ ClientStarted

\* The sensor hub with no sender, the server just started.
NoSender == SenderOff /\ NoServer

InitDb == InitTable /\ NoSender

\* One caller making the calls of DatabaseBase one after another, as time
\* passes.
NextDb ==
    \/ \E op \in Ops : Call("c1", op)
    \/ Enter("c1")
    \/ save_record("c1")
    \/ fetch_batch("c1")
    \/ mark_sent_empty("c1")
    \/ mark_sent("c1")
    \/ delete_sent("c1")
    \/ count_unsent("c1")
    \/ Tick

SpecDb == InitDb /\ [][NextDb]_vars

\* Several callers of one instance: a capture thread's save_record, a
\* sender's fetch_batch and mark_sent, each from any caller at any time.
LockOps == {"save_record", "fetch_batch", "mark_sent"}

NextLock ==
    \/ \E c \in Callers, op \in LockOps : Call(c, op)
    \/ \E c \in Callers : Enter(c)
    \/ \E c \in Callers : save_record(c)
    \/ \E c \in Callers : fetch_batch(c)
    \/ \E c \in Callers : mark_sent_empty(c)
    \/ \E c \in Callers : mark_sent(c)

SpecLock == InitDb /\ [][NextLock]_vars

\* ------------------------------------------------------------- send_batch
\* What requests.post(url, ...) can come to: a status code, or an exception.
Responses == {"200", "201", "202", "204", "500", "exception"}
\* response.status_code in (200, 201, 202)
AcceptedStatus(resp) == resp \in {"200", "201", "202"}

\* The responses a server can give: accepting ones when it is up.
Answers(up) ==
    {f \in [Urls -> Responses] :
        \A u \in Urls : up[u] <=> f[u] \in {"200", "201", "202"}}

\* SocketIOClient.emit: False when not _connected; else sio.emit, True
\* unless it raises (the transport is gone).
Emit(conn, up) == conn /\ up

\* _send_via_socket(records), n records, the transport lost before record
\* number `drop` is emitted: one emit per record, counted, none skipped.
SendViaSocket(n, client, conn, up, drop) ==
    IF client = "None" \/ ~conn
    THEN [ok |-> FALSE, log |-> <<>>]
    ELSE LET log == [k \in 1..n |->
                        [ch |-> "socket", rec |-> k,
                         out |-> IF Emit(conn, up /\ k < drop)
                                 THEN "emitted" ELSE "failed"]]
             success_count == Cardinality({k \in 1..n : log[k].out = "emitted"})
         IN [ok |-> success_count = n, log |-> log]

\* _send_via_http(records): POST the batch to each URL in turn; return True
\* at the first accepted status; a raising post is logged and passed over.
RECURSIVE PostEachNoStop(_, _, _)
PostEachNoStop(urls, resp, k) ==
    IF k > Len(urls) THEN [ok |-> FALSE, log |-> <<>>]
    ELSE LET u == urls[k]
             e == [ch |-> u, rec |-> 0, out |-> resp[u]]
             rest == PostEachNoStop(urls, resp, k + 1)
         IN [ok |-> AcceptedStatus(resp[u]) \/ rest.ok, log |-> <<e>> \o rest.log]
RECURSIVE PostEach(_, _, _)
PostEach(urls, resp, k) ==
    IF k > Len(urls) THEN [ok |-> FALSE, log |-> <<>>]
    ELSE LET u == urls[k]
             e == [ch |-> u, rec |-> 0, out |-> resp[u]]
         IN IF AcceptedStatus(resp[u])
            THEN [ok |-> TRUE, log |-> <<e>>]
            ELSE LET rest == PostEach(urls, resp, k + 1)
                 IN [ok |-> rest.ok, log |-> <<e>> \o rest.log]

SendViaHttp(urls, resp) ==
    IF urls = <<>> THEN [ok |-> FALSE, log |-> <<>>] ELSE PostEach(urls, resp, 1)

\* send_batch(records): nothing to send is a success; else the socket, and
\* the webhooks only when the socket did not take every record.
SendBatch(n, client, conn, up, drop, urls, resp) ==
    IF n = 0 THEN [ok |-> TRUE, log |-> <<>>]
    ELSE LET k == SendViaSocket(n, client, conn, up, drop)
         IN IF k.ok THEN k
            ELSE LET h == SendViaHttp(urls, resp)
                 IN [ok |-> h.ok, log |-> k.log \o h.log]

Range(s) == {s[k] : k \in 1..Len(s)}

\* The drop points of a batch of n records: n + 1 is no drop.
Drops(n, up) == IF up THEN 1..(n + 1) ELSE {n + 1}

\* send_batch called on the batch record_ids, as the network stands.
send_batch_call ==
    /\ spc = "call send_batch"
    /\ \E drop \in Drops(Len(record_ids), sioUp), resp \in Answers(hookUp) :
          LET r == SendBatch(Len(record_ids), socket_client, connected, sioUp,
                             drop, webhook_urls, resp)
          IN /\ r.ok \/ consecutive_failures < MaxFailures
             /\ success' = r.ok
             /\ sendLog' = r.log
             /\ sioUp' = (sioUp /\ drop = Len(record_ids) + 1)
             /\ acked' = IF r.ok THEN acked \cup Range(record_ids) ELSE acked
             /\ streak' = IF r.ok THEN 0 ELSE streak + 1
    /\ spc' = "returned"
    /\ UNCHANGED <<dbVars, callVars, socket_client, connected, webhook_urls,
                   hookUp, rows, record_ids, consecutive_failures, slept,
                   clientVars,
                   serverVars>>

\* The URL lists: no URL twice.
UrlLists ==
    {<<>>} \cup {<<u>> : u \in Urls}
           \cup {p \in Urls \X Urls : p[1] # p[2]}

\* A batch of n records, any socket client state, any webhook configuration.
InitSend ==
    /\ InitTable
    /\ socket_client \in {"None", "client"}
    /\ connected \in BOOLEAN
    /\ sioUp \in BOOLEAN
    /\ socket_client = "None" => ~connected /\ ~sioUp
    /\ webhook_urls \in UrlLists
    /\ hookUp \in [Urls -> BOOLEAN]
    /\ spc = "call send_batch"
    /\ \E n \in 0..max_records : record_ids = [k \in 1..n |-> k]
    /\ rows = <<>>
    /\ success = TRUE
    /\ consecutive_failures = 0
    /\ slept = 0
    /\ acked = {}
    /\ streak = 0
    /\ sendLog = <<>>
    /\ ClientStarted
    /\ NoServer

NextSend == send_batch_call

SpecSend == InitSend /\ [][NextSend]_vars

\* ------------------------------------------------------------ the sender
\* 2 ** n
RECURSIVE Pow2(_)
Pow2(n) == IF n = 0 THEN 1 ELSE 2 * Pow2(n - 1)

\* _calculate_backoff: retry_backoff_base * (2 ** failures), at most max_backoff.
CalculateBackoffNoCap(failures) == retry_backoff_base * Pow2(failures)
CalculateBackoff(failures) ==
    Min(retry_backoff_base * Pow2(failures), max_backoff)

\* run_forever: the polling interval after a successful process_batch, the
\* backoff after a failed one.
SleepDelayAlwaysPolling(ok, failures) == polling_interval
SleepDelay(ok, failures) ==
    IF ok THEN polling_interval ELSE CalculateBackoff(failures)

\* process_batch: the rows whose transform_for_send did not raise.
TransformedAll(t, fetched) == fetched
Transformed(t, fetched) == SelectSeq(fetched, LAMBDA i : t[i].ok)

\* _consecutive_failures after send_batch returned ok.
FailuresAfter(ok, failures) == IF ok THEN 0 ELSE failures + 1

\* The ids process_batch passes to mark_sent after send_batch returned ok.
IdsToMarkAlways(ok, ids) == Range(ids)
IdsToMarkFirst(ok, ids) == IF ok THEN {ids[1]} ELSE {}
IdsToMark(ok, ids) == IF ok THEN Range(ids) ELSE {}

\* run_forever, process_batch having returned ok: either way a sleep, and
\* the loop goes on; no branch breaks or raises.
AfterBatchFatal(ok) == IF ok THEN "sleep" ELSE "stopped"
AfterBatch(ok) == "sleep"

\* process_batch, to its call of send_batch: fetch_batch(max_records) and
\* the transforms.  No row, or no row transformed: it returns True.  An
\* sqlite3 error in fetch_batch propagates to run_forever.
process_batch_fetch ==
    /\ spc = "process_batch"
    /\ \/ /\ spc' = "except"
          /\ UNCHANGED <<rows, record_ids, success>>
       \/ LET fetched == SelectUnsent(table, max_records)
              records == Transformed(table, fetched)
          IN /\ rows' = fetched
             /\ record_ids' = records
             /\ IF fetched = <<>> \/ records = <<>>
                THEN spc' = "sleep" /\ success' = TRUE
                ELSE spc' = "call send_batch" /\ UNCHANGED success
    /\ UNCHANGED <<dbVars, callVars, netVars, consecutive_failures, slept,
                   acked, streak, sendLog, clientVars,
                   serverVars>>

\* process_batch, from send_batch's return: mark_sent(record_ids) (its
\* result not looked at) and the counter reset, or the counter incremented.
process_batch_result ==
    /\ spc = "returned"
    /\ LET ids == IdsToMark(success, record_ids)
       IN \/ table' = UpdateSent(table, ids)
          \/ ids # {} /\ table' = table
    /\ consecutive_failures' = FailuresAfter(success, consecutive_failures)
    /\ spc' = AfterBatch(success)
    /\ sendLog' = <<>>
    /\ UNCHANGED <<seq, removed, callVars, netVars, rows, record_ids, success,
                   slept, acked, streak, clientVars,
                   serverVars>>

\* run_forever: time.sleep(polling_interval) or time.sleep(backoff).
sleep ==
    /\ spc = "sleep"
    /\ slept' = SleepDelay(success, consecutive_failures)
    /\ spc' = "delete_sent"
    /\ UNCHANGED <<dbVars, callVars, netVars, rows, record_ids, success,
                   consecutive_failures, acked, streak, sendLog, clientVars,
                   serverVars>>

\* run_forever: delete_sent(older_than_hours=24), and round again.
cleanup ==
    /\ spc = "delete_sent"
    /\ \/ table' = DeleteOld(table, older_than_hours)
       \/ table' = table
    /\ removed' = removed \cup Gone(table, table')
    /\ spc' = "process_batch"
    /\ rows' = <<>>
    /\ record_ids' = <<>>
    /\ slept' = 0
    /\ UNCHANGED <<seq, callVars, netVars, success, consecutive_failures,
                   acked, streak, sendLog, clientVars,
                   serverVars>>

\* run_forever: except Exception: time.sleep(polling_interval), round again.
except_sleep ==
    /\ spc = "except"
    /\ spc' = "process_batch"
    /\ UNCHANGED <<dbVars, callVars, netVars, rows, record_ids, success,
                   consecutive_failures, slept, acked, streak, sendLog, clientVars,
                   serverVars>>

\* KeyboardInterrupt, wherever the sender is: run_forever breaks.
cancel ==
    /\ spc \notin {"none", "stopped"}
    /\ spc' = "stopped"
    /\ UNCHANGED <<dbVars, callVars, netVars, rows, record_ids, success,
                   consecutive_failures, slept, acked, streak, sendLog, clientVars,
                   serverVars>>

\* handle_foot_data / handle_accel_data: save_record, its result dropped.
capture ==
    /\ seq < MaxId
    /\ \/ /\ \E ok \in Transformable : table' = InsertRow(table, seq + 1, ok)
          /\ seq' = seq + 1
       \/ UNCHANGED <<table, seq>>
    /\ UNCHANGED <<removed, callVars, netVars, senderVars, sendLog, clientVars,
                   serverVars>>

\* The transport is lost; on_disconnect has not run yet.
net_drop ==
    /\ sioUp
    /\ sioUp' = FALSE
    /\ UNCHANGED <<dbVars, callVars, socket_client, connected, webhook_urls,
                   hookUp, senderVars, sendLog, clientVars,
                   serverVars>>

\* on_disconnect, run by the thread that reads the transport once the
\* transport is gone (so not while that thread is in another handler): both
\* flags cleared.  An answer still on its way is lost with the transport.
on_disconnect ==
    /\ connected /\ ~sioUp
    /\ auth # "success"
    /\ connected' = FALSE
    /\ authenticated' = FALSE
    /\ auth' = "none"
    /\ UNCHANGED <<dbVars, callVars, socket_client, sioUp, webhook_urls,
                   hookUp, senderVars, sendLog, wire, eret, serverVars>>

\* The client connects or reconnects; on_connect: _connected set, and
\* _authenticate() emits the authenticate message.
on_connect ==
    /\ socket_client = "client" /\ ~sioUp
    /\ auth # "success"
    /\ sioUp' = TRUE
    /\ connected' = TRUE
    /\ auth' = "sent"
    /\ UNCHANGED <<dbVars, callVars, socket_client, webhook_urls, hookUp,
                   senderVars, sendLog, authenticated, wire, eret, serverVars>>

\* A configured webhook's server goes down or comes back.
hook_flip ==
    /\ \E u \in Range(webhook_urls) : hookUp' = [hookUp EXCEPT ![u] = ~hookUp[u]]
    /\ UNCHANGED <<dbVars, callVars, socket_client, connected, sioUp,
                   webhook_urls, senderVars, sendLog, clientVars,
                   serverVars>>

\* send_foot_data.main / send_accel_data.main: the client made and connect()
\* tried, the sender made on its database, run_forever entered.
Init ==
    /\ InitTable
    /\ socket_client = "client"
    /\ connected \in BOOLEAN
    /\ sioUp = connected
    /\ webhook_urls = <<"u1">>
    /\ hookUp = [u \in Urls |-> FALSE]
    /\ spc = "process_batch"
    /\ rows = <<>>
    /\ record_ids = <<>>
    /\ success = TRUE
    /\ consecutive_failures = 0
    /\ slept = 0
    /\ acked = {}
    /\ streak = 0
    /\ sendLog = <<>>
    /\ ClientStarted
    /\ NoServer

SenderStep ==
    \/ process_batch_fetch
    \/ send_batch_call
    \/ process_batch_result
    \/ sleep
    \/ cleanup
    \/ except_sleep

Next ==
    \/ SenderStep
    \/ cancel
    \/ capture
    \/ Tick
    \/ net_drop
    \/ on_disconnect
    \/ on_connect
    \/ hook_flip

Spec == Init /\ [][Next]_vars

\* ------------------------------------------------------------ SpecDb claims

\* C1: no appended record is lost: every id save_record assigned is still in
\* the table or was deleted with its sent flag set; no deleted row was unsent.
C1_NeverLoseReading ==
    /\ \A i \in 1..seq :
          i \in DOMAIN table \/ [id |-> i, sent |-> TRUE] \in removed
    /\ \A r \in removed : r.sent

\* A delete_sent removed a sent row and left an unsent row of the same age.
C1_Witness ==
    /\ ret.op = "delete_sent"
    /\ ret.val >= 1
    /\ removed # {}
    /\ \E i \in DOMAIN table : ~table[i].sent /\ table[i].age = Aged

\* C3: for every limit, fetch_batch(limit) on the table as it stands returns
\* exactly the unsent rows with the min(limit, count_unsent) smallest ids, in
\* ascending id order.
C3_FetchBatchExact ==
    \A limit \in 0..(MaxId + 1) :
        LET r == SelectUnsent(table, limit)
            unsent == {i \in DOMAIN table : table[i].sent = FALSE}
        IN /\ Len(r) = Min(limit, Cardinality(unsent))
           /\ Range(r) \subseteq unsent
           /\ \A k \in 1..(Len(r) - 1) : r[k] < r[k + 1]
           /\ \A i \in unsent \ Range(r) : \A k \in 1..Len(r) : r[k] < i

\* A fetch_batch returned a row, skipped a sent row with a smaller id and
\* left an unsent row out because of its limit.
C3_Witness ==
    /\ ret.op = "fetch_batch"
    /\ ret.val # Raised
    /\ Len(ret.val) >= 1
    /\ \E i \in DOMAIN table : table[i].sent /\ i < ret.val[1]
    /\ \E i \in DOMAIN table : ~table[i].sent /\ i \notin Range(ret.val)

\* C4: a row's sent flag is false when the row is inserted (under an id no
\* row had before) and no step takes it from true back to false.
C4_SentMonotone ==
    [][ /\ \A i \in DOMAIN table \cap DOMAIN table' :
              table[i].sent => table'[i].sent
        /\ \A i \in DOMAIN table' \ DOMAIN table :
              ~table'[i].sent /\ i > seq ]_vars

\* A row marked sent is still sent after time passed, a later save_record
\* and a mark_sent that marked the newer row.
C4_Witness ==
    /\ ret.op = "mark_sent"
    /\ ret.val = TRUE
    /\ ~ret.same
    /\ \E i, j \in DOMAIN table :
          i < j /\ table[i].sent /\ table[i].age = Aged /\ table[j].sent /\ table[j].age = 0

\* C5: on every table and for every id set S, a second mark_sent(S) changes
\* nothing the first left (the table, count_unsent), and after mark_sent(S)
\* no id of S counts as unsent.
C5_MarkSentIdempotent ==
    \A S \in SUBSET Ids :
        LET once == UpdateSent(table, S)
            twice == UpdateSent(once, S)
        IN /\ twice = once
           /\ CountUnsent(twice) = CountUnsent(once)
           /\ \A i \in S \cap DOMAIN once : once[i].sent

\* A mark_sent of ids whose rows were all sent already completed.
C5_Witness ==
    /\ ret.op = "mark_sent"
    /\ ret.val = TRUE
    /\ ret.same
    /\ \E i \in DOMAIN table : table[i].sent

\* C6: at most one caller is inside a with-block of the instance at a time,
\* and the rows a fetch_batch returns are unsent in the table it reads.
C6_Exclusive ==
    /\ Cardinality({c \in Callers : cpc[c].at = "in"}) <= 1
    /\ \A c \in Callers : cpc[c].at = "in" => lock = c

C6_FetchReadsUnsent ==
    \A c \in Callers :
        (In(c, "fetch_batch") /\ cpc'[c].at = "idle" /\ ret'.val # Raised)
            => \A i \in Range(ret'.val) : i \in DOMAIN table /\ ~table[i].sent

C6_SerializedFetch == []C6_Exclusive /\ [][C6_FetchReadsUnsent]_vars

\* A fetch_batch that was called while a mark_sent held the lock returned
\* rows, with a sent row in the table.
C6_Witness ==
    /\ ret.op = "fetch_batch"
    /\ ret.behind
    /\ ret.val # Raised
    /\ Len(ret.val) >= 1
    /\ \E i \in DOMAIN table : table[i].sent

\* run_forever is a loop in a process of its own: the sender's next step
\* is taken when it can be.  A storage error is a passing thing: a fetch or
\* a marking that is tried again and again does at some time go through.
SpecFair ==
    /\ Init
    /\ [][Next]_vars
    /\ WF_vars(SenderStep)
    /\ SF_vars(process_batch_fetch /\ spc' # "except")
    /\ SF_vars(process_batch_result /\ table' # table)

\* ------------------------------------------------------ the socket client
\* The server answered the authenticate message with auth_success and the
\* thread that reads the transport has entered on_auth_success (its print),
\* the assignment still to come.
recv_auth_success ==
    /\ auth = "sent" /\ connected /\ sioUp
    /\ auth' = "success"
    /\ UNCHANGED <<dbVars, callVars, netVars, senderVars, sendLog,
                   authenticated, wire, eret, serverVars>>

\* on_auth_success: self._authenticated = True (no flag is looked at).
on_auth_success ==
    /\ auth = "success"
    /\ authenticated' = TRUE
    /\ auth' = "done"
    /\ UNCHANGED <<dbVars, callVars, netVars, senderVars, sendLog, wire, eret,
                   serverVars>>

\* on_auth_error: the server refused the device key.
on_auth_error ==
    /\ auth = "sent" /\ connected /\ sioUp
    /\ authenticated' = FALSE
    /\ auth' = "done"
    /\ UNCHANGED <<dbVars, callVars, netVars, senderVars, sendLog, wire, eret,
                   serverVars>>

\* SocketIOClient.disconnect(), called by the owner of the client from its
\* own thread: sio.disconnect(), then both flags cleared.
disconnect ==
    /\ socket_client = "client"
    /\ connected \/ sioUp \/ authenticated
    /\ sioUp' = FALSE
    /\ connected' = FALSE
    /\ authenticated' = FALSE
    /\ auth' = IF auth = "success" THEN "success" ELSE "none"
    /\ eret' = [op |-> "disconnect", was_connected |-> connected, val |-> TRUE,
                sent |-> 0]
    /\ UNCHANGED <<dbVars, callVars, socket_client, webhook_urls, hookUp,
                   senderVars, sendLog, wire, serverVars>>

\* SocketIOClient.emit(event, data): False at once when not _connected; else
\* sio.emit, True unless it raises.
emit ==
    /\ socket_client = "client"
    /\ wire < MaxEmits
    /\ LET val == Emit(connected, sioUp)
           sent == IF connected /\ sioUp THEN 1 ELSE 0
       IN /\ eret' = [op |-> "emit", was_connected |-> connected, val |-> val,
                      sent |-> sent]
          /\ wire' = wire + sent
    /\ UNCHANGED <<dbVars, callVars, netVars, senderVars, sendLog,
                   authenticated, auth, serverVars>>

\* The client constructed, connect() not yet called; no sender.
InitSocket ==
    /\ InitTable
    /\ socket_client = "client"
    /\ connected = FALSE
    /\ sioUp = FALSE
    /\ webhook_urls = <<>>
    /\ hookUp = [u \in Urls |-> FALSE]
    /\ spc = "none"
    /\ rows = <<>>
    /\ record_ids = <<>>
    /\ success = TRUE
    /\ consecutive_failures = 0
    /\ slept = 0
    /\ acked = {}
    /\ streak = 0
    /\ sendLog = <<>>
    /\ ClientStarted
    /\ NoServer

NextSocket ==
    \/ on_connect
    \/ net_drop
    \/ on_disconnect
    \/ recv_auth_success
    \/ on_auth_success
    \/ on_auth_error
    \/ disconnect
    \/ emit

SpecSocket == InitSocket /\ [][NextSocket]_vars

\* --------------------------------------------------------- the VectorStore
Sessions == {"s1", "s2"}
SensorTypes == {"foot", "accel", "other"}
Times == {250 * k : k \in 0..MaxTicks}
None == 0

\* A function without the key k: del d[k].
Del(d, k) == [x \in DOMAIN d \ {k} |-> d[x]]

\* A function with the key k set: d[k] = v.
Put(d, k, v) == [x \in DOMAIN d \cup {k} |-> IF x = k THEN v ELSE d[x]]

\* datetime.fromisoformat(timestamp_str).timestamp() * 1000, or, when that
\* raises ValueError or TypeError, time.time() * 1000.
ParseTimestampNoFallback(reading, now) == reading.ts
ParseTimestamp(reading, now) == IF reading.parses THEN reading.ts ELSE now

\* SensorWindow(session_id, device, start_time=timestamp_ms,
\*              end_time=timestamp_ms), its lists empty.
NewWindow(sid, timestamp_ms) ==
    [session_id |-> sid, start_time |-> timestamp_ms, end_time |-> timestamp_ms,
     foot_readings |-> <<>>, accel_readings |-> <<>>]

\* The reading appended to the list of its sensor type (to none when the
\* type is neither), and end_time set.
AppendReading(w, sensor_type, n, timestamp_ms) ==
    [w EXCEPT
        !.foot_readings = IF sensor_type = "foot" THEN Append(@, n) ELSE @,
        !.accel_readings = IF sensor_type = "accel" THEN Append(@, n) ELSE @,
        !.end_time = timestamp_ms]

\* window_duration >= self.config.window_size_ms
WindowCompleteStrict(w) == w.end_time - w.start_time > window_size_ms
WindowComplete(w) == w.end_time - w.start_time >= window_size_ms

\* flush_session: window.foot_readings or window.accel_readings
HasReadingsAlways(w) == TRUE
HasReadings(w) == w.foot_readings # <<>> \/ w.accel_readings # <<>>

\* str(uuid.uuid4()): an id no point of the collection has.
FreshId(pts) ==
    1 + (IF pts = <<>> THEN 0
         ELSE CHOOSE m \in {pts[k].id : k \in 1..Len(pts)} :
                 \A k \in 1..Len(pts) : pts[k].id <= m)

\* _store_window: the point upserted, its id a fresh one.
StoreWindowRecent(pts, w) ==
    LET last(r) == SubSeq(r, Len(r) - Min(Len(r), 10) + 1, Len(r))
    IN Append(pts, [id |-> FreshId(pts),
                    session_id |-> w.session_id,
                    start_time |-> w.start_time,
                    end_time |-> w.end_time,
                    foot_count |-> Len(w.foot_readings),
                    accel_count |-> Len(w.accel_readings),
                    foot |-> last(w.foot_readings),
                    accel |-> last(w.accel_readings)])
StoreWindow(pts, w) ==
    Append(pts, [id |-> FreshId(pts),
                 session_id |-> w.session_id,
                 start_time |-> w.start_time,
                 end_time |-> w.end_time,
                 foot_count |-> Len(w.foot_readings),
                 accel_count |-> Len(w.accel_readings),
                 foot |-> w.foot_readings,
                 accel |-> w.accel_readings])

\* The window objects something still refers to.
Alive(ws, active, th) ==
    LET held == {th[t].window : t \in {u \in Threads : th[u].pc # "free"}}
        used == {active[x] : x \in DOMAIN active} \cup held
    IN [x \in DOMAIN ws \cap used |-> ws[x]]

\* The readings a sender can deliver: a timestamp that parses to one of the
\* instants, or one that does not parse.
Readings ==
    [parses : {TRUE}, ts : Times] \cup [parses : {FALSE}, ts : {0}]

\* add_reading(session_id, sensor_type, reading), from call to return with
\* no other call between.  client.upsert may raise (Qdrant unreachable):
\* the exception leaves add_reading before the del.
AddReading(sid, sensor_type, reading) ==
    /\    IF sid = ""
          THEN /\ vret' = [op |-> "add_reading", sid |-> sid, sensor_type |-> sensor_type, reading |-> reading, point |-> None,
                           raised |-> FALSE]
               /\ UNCHANGED <<windows, active_windows, nwin, nread, points>>
          ELSE LET timestamp_ms == ParseTimestamp(reading, clock)
                   fresh == sid \notin DOMAIN active_windows
                   wid == IF fresh THEN nwin + 1 ELSE active_windows[sid]
                   w0 == IF fresh THEN NewWindow(sid, timestamp_ms)
                         ELSE windows[wid]
                   w == AppendReading(w0, sensor_type, nread + 1, timestamp_ms)
               IN /\ nread' = nread + 1
                  /\ nwin' = IF fresh THEN nwin + 1 ELSE nwin
                  /\ IF WindowComplete(w)
                     THEN \/ /\ points' = StoreWindow(points, w)
                             /\ active_windows' = Del(active_windows, sid)
                             /\ windows' = Del(windows, wid)
                             /\ vret' = [op |-> "add_reading", sid |-> sid,
                                         sensor_type |-> sensor_type, reading |-> reading,
                                         point |-> points'[Len(points')].id, raised |-> FALSE]
                          \/ /\ active_windows' = Put(active_windows, sid, wid)
                             /\ windows' = Put(windows, wid, w)
                             /\ vret' = [op |-> "add_reading", sid |-> sid,
                                         sensor_type |-> sensor_type, reading |-> reading,
                                         point |-> None, raised |-> TRUE]
                             /\ UNCHANGED points
                     ELSE /\ active_windows' = Put(active_windows, sid, wid)
                          /\ windows' = Put(windows, wid, w)
                          /\ vret' = [op |-> "add_reading", sid |-> sid,
                                      sensor_type |-> sensor_type, reading |-> reading,
                                      point |-> None, raised |-> FALSE]
                          /\ UNCHANGED points
    /\ UNCHANGED <<hubVars, indexVars, clock, thr>>

add_reading ==
    /\ nread < MaxReadings
    /\ \E sid \in Sessions \cup {""}, sensor_type \in SensorTypes,
          reading \in Readings : AddReading(sid, sensor_type, reading)
    /\ UNCHANGED sessionVars

\* flush_session(session_id), from call to return with no other call
\* between.
FlushSession(sid) ==
    /\    IF sid \notin DOMAIN active_windows
          THEN /\ vret' = [op |-> "flush_session", sid |-> sid, sensor_type |-> "", reading |-> [parses |-> TRUE, ts |-> 0], point |-> None,
                           raised |-> FALSE]
               /\ UNCHANGED <<windows, active_windows, points>>
          ELSE LET wid == active_windows[sid]
                   w == windows[wid]
               IN IF HasReadings(w)
                  THEN \/ /\ points' = StoreWindow(points, w)
                          /\ active_windows' = Del(active_windows, sid)
                          /\ windows' = Del(windows, wid)
                          /\ vret' = [op |-> "flush_session", sid |-> sid,
                                      sensor_type |-> "", reading |-> [parses |-> TRUE, ts |-> 0],
                                      point |-> points'[Len(points')].id, raised |-> FALSE]
                       \/ /\ vret' = [op |-> "flush_session", sid |-> sid,
                                      sensor_type |-> "", reading |-> [parses |-> TRUE, ts |-> 0],
                                      point |-> None, raised |-> TRUE]
                          /\ UNCHANGED <<windows, active_windows, points>>
                  ELSE /\ active_windows' = Del(active_windows, sid)
                       /\ windows' = Del(windows, wid)
                       /\ vret' = [op |-> "flush_session", sid |-> sid,
                                   sensor_type |-> "", reading |-> [parses |-> TRUE, ts |-> 0],
                                   point |-> None, raised |-> FALSE]
                       /\ UNCHANGED points
    /\ UNCHANGED <<hubVars, indexVars, nwin, nread, clock, thr>>

flush_session ==
    /\ \E sid \in Sessions : FlushSession(sid)
    /\ UNCHANGED sessionVars

\* The server's clock moves on, to the last of the instants.
tick ==
    /\ clock < 250 * MaxTicks
    /\ clock' = 250 * MaxTicks
    /\ UNCHANGED <<hubVars, sessionVars, indexVars, windows, active_windows, nwin, nread, points,
                   vret, thr>>

\* The sensor hub as it is before anything runs; the server just started.
InitStore == InitTable /\ NoSender

NextStore ==
    \/ add_reading
    \/ flush_session
    \/ tick

SpecStore == InitStore /\ [][NextStore]_vars

\* ------------------------------------------------------- handler threads
\* Each event and each request is handled in a thread of its own, and the
\* VectorStore has no lock: a call runs statement by statement, the other
\* threads' statements between.  The index answers.
Result(t, point, raised) ==
    [op |-> thr[t].op, sid |-> thr[t].sid, sensor_type |-> thr[t].sensor_type,
     reading |-> [parses |-> TRUE, ts |-> thr[t].ts],
     point |-> point, raised |-> raised]

\* The thread returns (or the exception leaves the call).
Return(t, active, ws, point, raised) ==
    /\ thr' = [thr EXCEPT ![t] = Free]
    /\ vret' = Result(t, point, raised)
    /\ active_windows' = active
    /\ windows' = Alive(ws, active, thr')

\* The thread goes on to the statement at pc.
Goto(t, pc, active, ws, wid, point) ==
    /\ thr' = [thr EXCEPT ![t].pc = pc, ![t].window = wid, ![t].point = point]
    /\ active_windows' = active
    /\ windows' = Alive(ws, active, thr')
    /\ UNCHANGED vret

\* handle_foot_data / handle_accel_data: add_reading called, the timestamp
\* parsed.
t_add_reading(t) ==
    /\ thr[t].pc = "free"
    /\ nread < MaxReadings
    /\ \E sid \in {"s1"}, sensor_type \in {"foot"}, ts \in Times :
          thr' = [thr EXCEPT ![t] =
                    [pc |-> "test", op |-> "add_reading", sid |-> sid,
                     sensor_type |-> sensor_type, n |-> nread + 1, ts |-> ts,
                     window |-> 0, point |-> None]]
    /\ nread' = nread + 1
    /\ UNCHANGED <<hubVars, sessionVars, indexVars, windows, active_windows, nwin, points, clock, vret>>

\* if session_id not in self._active_windows:
t_test(t) ==
    /\ thr[t].pc = "test"
    /\ Goto(t, IF thr[t].sid \in DOMAIN active_windows THEN "get" ELSE "create",
            active_windows, windows, 0, None)
    /\ UNCHANGED <<hubVars, sessionVars, indexVars, nwin, nread, points, clock>>

\* self._active_windows[session_id] = SensorWindow(...)
t_create(t) ==
    /\ thr[t].pc = "create"
    /\ nwin' = nwin + 1
    /\ Goto(t, "get", Put(active_windows, thr[t].sid, nwin + 1),
            Put(windows, nwin + 1, NewWindow(thr[t].sid, thr[t].ts)), 0, None)
    /\ UNCHANGED <<hubVars, sessionVars, indexVars, nread, points, clock>>

\* window = self._active_windows[session_id]: KeyError when the entry has
\* been deleted meanwhile.
t_get(t) ==
    /\ thr[t].pc = "get"
    /\ IF thr[t].sid \in DOMAIN active_windows
       THEN Goto(t, "append", active_windows, windows,
                 active_windows[thr[t].sid], None)
       ELSE Return(t, active_windows, windows, None, TRUE)
    /\ UNCHANGED <<hubVars, sessionVars, indexVars, nwin, nread, points, clock>>

\* The append, end_time, and the test of the window's duration.
t_append(t) ==
    /\ thr[t].pc = "append"
    /\ LET wid == thr[t].window
           w == AppendReading(windows[wid], thr[t].sensor_type, thr[t].n,
                              thr[t].ts)
           ws == Put(windows, wid, w)
       IN IF WindowComplete(w)
          THEN Goto(t, "store", active_windows, ws, wid, None)
          ELSE Return(t, active_windows, ws, None, FALSE)
    /\ UNCHANGED <<hubVars, sessionVars, indexVars, nwin, nread, points, clock>>

\* point_id = self._store_window(window)
t_store(t) ==
    /\ thr[t].pc = "store"
    /\ points' = StoreWindow(points, windows[thr[t].window])
    /\ Goto(t, "del", active_windows, windows, thr[t].window,
            points'[Len(points')].id)
    /\ UNCHANGED <<hubVars, sessionVars, indexVars, nwin, nread, clock>>

\* del self._active_windows[session_id]: KeyError when the entry has been
\* deleted meanwhile; then return point_id.
t_del(t) ==
    /\ thr[t].pc = "del"
    /\ IF thr[t].sid \in DOMAIN active_windows
       THEN Return(t, Del(active_windows, thr[t].sid), windows,
                   thr[t].point, FALSE)
       ELSE Return(t, active_windows, windows, None, TRUE)
    /\ UNCHANGED <<hubVars, sessionVars, indexVars, nwin, nread, points, clock>>

\* stop_session / create_session: flush_session called, to its test of the
\* window's lists.
t_flush_session(t) ==
    /\ thr[t].pc = "free"
    /\ \E sid \in {"s1"} :
          IF sid \notin DOMAIN active_windows
          THEN /\ vret' = [op |-> "flush_session", sid |-> sid,
                           sensor_type |-> "",
                           reading |-> [parses |-> TRUE, ts |-> 0],
                           point |-> None, raised |-> FALSE]
               /\ UNCHANGED thr
          ELSE /\ thr' = [thr EXCEPT ![t] =
                            [pc |-> IF HasReadings(windows[active_windows[sid]])
                                    THEN "store" ELSE "del",
                             op |-> "flush_session", sid |-> sid,
                             sensor_type |-> "", n |-> 0, ts |-> 0,
                             window |-> active_windows[sid], point |-> None]]
               /\ UNCHANGED vret
    /\ UNCHANGED <<hubVars, sessionVars, indexVars, windows, active_windows, nwin, nread, points, clock>>

NextThreads ==
    \/ \E t \in Threads : t_add_reading(t)
    \/ \E t \in Threads : t_test(t)
    \/ \E t \in Threads : t_create(t)
    \/ \E t \in Threads : t_get(t)
    \/ \E t \in Threads : t_append(t)
    \/ \E t \in Threads : t_store(t)
    \/ \E t \in Threads : t_del(t)
    \/ \E t \in Threads : t_flush_session(t)

SpecThreads == InitStore /\ [][NextThreads]_vars

\* ------------------------------------------------------ a steady stream
\* The timestamp of the k-th reading of a stream of readings 100 ms apart.
StreamTs(k) == 100 * (k - 1)

\* The next foot reading of the stream is handled, the index answering.
stream_reading ==
    /\ nread < MaxStream
    /\ AddReading("s1", "foot", [parses |-> TRUE, ts |-> StreamTs(nread + 1)])
    /\ ~vret'.raised
    /\ UNCHANGED sessionVars

\* The session is flushed between two readings, the index answering.
stream_flush ==
    /\ FlushSession("s1")
    /\ ~vret'.raised
    /\ UNCHANGED sessionVars

NextStream ==
    \/ stream_reading
    \/ stream_flush

SpecStream == InitStore /\ [][NextStream]_vars

\* ---------------------------------------------------------------- a burst
\* The timestamp of the k-th reading of a burst of readings 25 ms apart,
\* and its stream: two foot readings, then an inertial one.
BurstTs(k) == 25 * (k - 1)
BurstType(k) == IF k % 3 = 0 THEN "accel" ELSE "foot"

\* The next reading of the burst is handled, the index answering.
burst_reading ==
    /\ nread < MaxBurst
    /\ AddReading("s1", BurstType(nread + 1),
                  [parses |-> TRUE, ts |-> BurstTs(nread + 1)])
    /\ ~vret'.raised
    /\ UNCHANGED sessionVars

\* The session is flushed between two readings, the index answering.
burst_flush ==
    /\ Len(points) < MaxBurstPoints
    /\ FlushSession("s1")
    /\ ~vret'.raised
    /\ UNCHANGED sessionVars

NextBurst ==
    \/ burst_reading
    \/ burst_flush

SpecBurst == InitStore /\ [][NextBurst]_vars

\* ---------------------------------------------------------------- draining
\* The host's local time is ahead of UTC by so many hours.
UtcOffsets == {-1, 0, 1}

\* datetime('now') - datetime(timestamp), in hours, of a row just written on
\* a host at that offset: the timestamp is datetime.now().isoformat(), local
\* time without a zone, and SQLite reads it as UTC.
StampAge(offset) == 0 - offset

\* U unsent rows just written on one host, a sender with a channel to send
\* on, and nothing going wrong: no storage error, every delivery accepted.
InitDrain ==
    /\ \E U \in 0..MaxId, z \in UtcOffsets :
          table = [i \in 1..U |->
                      [sent |-> FALSE, age |-> StampAge(z), ok |-> TRUE]]
          /\ seq = U
    /\ removed = {}
    /\ lock = NoOne
    /\ cpc = [c \in Callers |-> Idle]
    /\ ret = [op |-> "init", val |-> TRUE, behind |-> FALSE, same |-> TRUE]
    /\ socket_client \in {"None", "client"}
    /\ connected = (socket_client = "client")
    /\ sioUp = connected
    /\ webhook_urls \in {<<>>, <<"u1">>}
    /\ hookUp = [u \in Urls |-> TRUE]
    /\ socket_client = "client" \/ webhook_urls # <<>>
    /\ spc = "process_batch"
    /\ rows = <<>>
    /\ record_ids = <<>>
    /\ success = TRUE
    /\ consecutive_failures = 0
    /\ slept = 0
    /\ acked = {}
    /\ streak = 0
    /\ sendLog = <<>>
    /\ ClientStarted
    /\ NoServer

\* delete_sent(older_than_hours=0) called on the buffer between two cycles,
\* the sender stopped after it.
delete_sent_zero ==
    /\ spc = "process_batch"
    /\ table' = DeleteOld(table, 0)
    /\ removed' = removed \cup Gone(table, table')
    /\ ret' = [op |-> "delete_sent",
               val |-> Cardinality(DOMAIN table \ DOMAIN table'),
               behind |-> FALSE, same |-> table' = table]
    /\ spc' = "stopped"
    /\ UNCHANGED <<seq, lock, cpc, netVars, rows, record_ids, success,
                   consecutive_failures, slept, acked, streak, sendLog, clientVars,
                   serverVars>>

NextDrain ==
    \/ process_batch_fetch /\ spc' # "except"
    \/ send_batch_call /\ success'
    \/ process_batch_result /\ table' # table
    \/ sleep
    \/ cleanup /\ table' = DeleteOld(table, older_than_hours)
    \/ delete_sent_zero
    \/ Tick

SpecDrain == InitDrain /\ [][NextDrain]_vars

\* ------------------------------------------------------- rows that raise
\* A buffer file with rows on which transform_for_send raises (a values_json
\* that is no JSON, written by another hand), and the sender on it; the
\* storage itself answers.
InitSkip ==
    /\ \E U \in 1..MaxId :
          /\ \E oks \in [1..U -> BOOLEAN] :
                table = [i \in 1..U |->
                            [sent |-> FALSE, age |-> 0, ok |-> oks[i]]]
          /\ seq = U
    /\ removed = {}
    /\ lock = NoOne
    /\ cpc = [c \in Callers |-> Idle]
    /\ ret = [op |-> "init", val |-> TRUE, behind |-> FALSE, same |-> TRUE]
    /\ socket_client = "None"
    /\ connected = FALSE
    /\ sioUp = FALSE
    /\ webhook_urls = <<"u1">>
    /\ hookUp \in [Urls -> BOOLEAN]
    /\ spc = "process_batch"
    /\ rows = <<>>
    /\ record_ids = <<>>
    /\ success = TRUE
    /\ consecutive_failures = 0
    /\ slept = 0
    /\ acked = {}
    /\ streak = 0
    /\ sendLog = <<>>
    /\ ClientStarted
    /\ NoServer

NextSkip ==
    \/ process_batch_fetch /\ spc' # "except"
    \/ send_batch_call
    \/ process_batch_result
    \/ sleep
    \/ cleanup
    \/ hook_flip

SpecSkip == InitSkip /\ [][NextSkip]_vars

\* run_forever on that buffer is a loop in a process of its own: its next
\* step is taken when it can be, and a marking that is tried again and
\* again does at some time go through.
SpecSkipFair ==
    /\ InitSkip
    /\ [][NextSkip]_vars
    /\ WF_vars(NextSkip /\ spc' # spc)
    /\ SF_vars(process_batch_result /\ table' # table)

\* -------------------------------------------------------------- Spec claims
\* A row's flag is set, or the row was deleted with its flag set.
Marked(i) ==
    \/ i \in DOMAIN table /\ table[i].sent
    \/ [id |-> i, sent |-> TRUE] \in removed

\* C7: batch marking is all-or-nothing.  In every state of the sender, the
\* state left by a cancellation included, the ids of the fetched batch are
\* all marked sent or all unsent, and an id is marked only when send_batch
\* has reported success for a whole batch holding it.
C7_AllOrNothing ==
    /\ \/ \A i \in Range(rows) : Marked(i)
       \/ \A i \in Range(rows) : ~Marked(i)
    /\ \A i \in Range(rows) : Marked(i) => success /\ Range(rows) \subseteq acked
    /\ \A i \in 1..seq : Marked(i) => i \in acked

C7_Witness ==
    /\ spc = "stopped"
    /\ Len(rows) >= 2
    /\ \A i \in Range(rows) : Marked(i)
    /\ \E i \in DOMAIN table : ~table[i].sent

\* C8: when send_batch fails for a batch, process_batch leaves every id of
\* the batch unsent and adds exactly one to the consecutive-failure
\* counter, and the loop then sleeps min(base * 2^failures, cap), not the
\* polling interval, before the next attempt.
C8_FailedBatchUnsent ==
    (spc \in {"sleep", "delete_sent"} /\ ~success) =>
        /\ \A i \in Range(record_ids) : i \in DOMAIN table /\ ~table[i].sent
        /\ consecutive_failures >= 1

C8_FailureStep ==
    /\ (spc = "returned" /\ ~success /\ spc' = "sleep") =>
          /\ table' = table
          /\ consecutive_failures' = consecutive_failures + 1
    /\ (spc = "sleep" /\ ~success /\ spc' = "delete_sent") =>
          /\ slept' = Min(retry_backoff_base * 2^consecutive_failures,
                          max_backoff)
          /\ slept' # polling_interval
          /\ consecutive_failures' = consecutive_failures

C8_FailureBackoff == []C8_FailedBatchUnsent /\ [][C8_FailureStep]_vars

C8_Witness ==
    /\ spc = "delete_sent"
    /\ ~success
    /\ consecutive_failures = 2
    /\ slept = 240
    /\ Len(record_ids) >= 2
    /\ \A i \in Range(record_ids) : ~table[i].sent

C10_SendBatchOrder ==
    spc = "returned" =>
      LET n == Len(record_ids)
          idxS == {k \in 1..Len(sendLog) : sendLog[k].ch = "socket"}
          idxH == {k \in 1..Len(sendLog) : sendLog[k].ch \in Urls}
          off == Cardinality(idxS)
          m == Cardinality(idxH)
          took(k) == sendLog[k].out \in {"200", "201", "202"}
          primaryOK == \A r \in 1..n : \E k \in idxS :
                          sendLog[k].rec = r /\ sendLog[k].out = "emitted"
          fallbackOK == \E k \in idxH : took(k)
      IN /\ idxS = 1..off /\ idxH = (off + 1)..(off + m)
         /\ off \in {0, n}
         /\ \A k \in idxS : sendLog[k].rec = k
         /\ off = n <=> (socket_client = "client" /\ connected) \/ n = 0
         /\ m > 0 => ~primaryOK
         /\ m <= Len(webhook_urls)
         /\ \A j \in 1..m : sendLog[off + j].ch = webhook_urls[j]
         /\ \A j \in 1..m : took(off + j) => j = m
         /\ (~primaryOK /\ ~fallbackOK) => m = Len(webhook_urls)
         /\ success <=> (primaryOK \/ fallbackOK)
         /\ (~primaryOK /\ webhook_urls = <<>>) => ~success

C10_Witness ==
    /\ spc = "returned"
    /\ success
    /\ Len(record_ids) = 2
    /\ Len(sendLog) = 4
    /\ sendLog[1].out = "emitted"
    /\ sendLog[2].out = "failed"
    /\ sendLog[3].out \notin {"200", "201", "202"}
    /\ sendLog[4].out = "202"

\* --------------------------------------------------------- SpecFair claims
\* A channel can take a batch: the socket is connected and its transport
\* up, or a configured webhook's server is up.
Avail ==
    \/ socket_client = "client" /\ connected /\ sioUp
    \/ \E u \in Range(webhook_urls) : hookUp[u]

\* C2: at-least-once delivery.  Under fair scheduling of the sender loop
\* (which is not cancelled), if a channel is from some time on always
\* available, every record appended to the buffer is eventually accepted
\* by a channel and marked sent; and a record is never marked sent without
\* a batch holding it having been reported as delivered.
C2_AtLeastOnce ==
    /\ ([](spc # "stopped") /\ <>[]Avail) =>
          \A i \in Ids : [](i \in DOMAIN table => <>(Marked(i) /\ i \in acked))
    /\ [](\A i \in Ids : Marked(i) => i \in acked)

C2_Witness ==
    /\ seq >= 3
    /\ \A i \in 1..seq : Marked(i) /\ i \in acked
    /\ removed # {}
    /\ spc = "process_batch"
    /\ Avail

\* C12: a remote delivery failure (socket not connected, emit error, webhook
\* exception or refusing status) never ends the sender loop: after a failed
\* batch run_forever has a next step to take, however many batches failed
\* before, and the loop is left only by the cancellation.
C12_LoopGoesOn ==
    (spc \notin {"stopped", "call send_batch"}) => ENABLED SenderStep

C12_OnlyCancelStops ==
    (spc # "stopped" /\ spc' = "stopped") =>
        UNCHANGED <<dbVars, callVars, netVars, rows, record_ids, success,
                    consecutive_failures, slept, acked, streak, sendLog, clientVars,
                   serverVars>>

C12_FailureNeverFatal == []C12_LoopGoesOn /\ [][C12_OnlyCancelStops]_vars

\* The loop about to send again after three failed batches in a row.
C12_Witness ==
    /\ spc = "call send_batch"
    /\ ~success
    /\ streak = 3
    /\ consecutive_failures = 3
    /\ ~connected

\* C13: a storage error in mark_sent is acted on by its caller: a batch
\* whose mark_sent failed is not treated as marked, so process_batch
\* reports a batch as done (True, the failure count back at 0) only when
\* its ids are marked.  (save_record's caller likewise.)
C13_StorageErrorActedOn ==
    (spc \in {"sleep", "delete_sent"} /\ record_ids # <<>> /\ success) =>
        \A i \in Range(record_ids) : Marked(i)

\* -------------------------------------------------------- SpecDrain claims
\* C11: draining.  With every delivery succeeding, each sender cycle sends
\* and marks the min(max_records, remaining) lowest-id unsent records, so U
\* records are delivered max_records at a time; once count_unsent() is 0, a
\* delete_sent with zero retention removes every row.
C11_Draining ==
    /\ (spc \in {"sleep", "delete_sent"} /\ rows # <<>>) =>
          /\ \A i \in Range(rows) : Marked(i)
          /\ Len(rows) = Min(max_records, Len(rows) + CountUnsent(table))
          /\ \A i \in Unsent(table), j \in Range(rows) : j < i
    /\ spc = "process_batch" =>
          /\ CountUnsent(table) = seq - Cardinality(acked)
          /\ \E k \in 0..seq : Cardinality(acked) = Min(seq, k * max_records)
    /\ (ret.op = "delete_sent" /\ CountUnsent(table) = 0) =>
          /\ CountTotal(table) = 0
          /\ \A i \in 1..seq : [id |-> i, sent |-> TRUE] \in removed

\* --------------------------------------------------------- SpecSkip claims
\* C14: a row whose transform_for_send raises is skipped without crashing
\* the sender: the other rows of the fetched batch are still sent, and only
\* the ids of rows that were transformed and sent are marked sent.
C14_BadRowSkipped ==
    /\ spc \notin {"except", "stopped"}
    /\ spc \in {"call send_batch", "returned"} =>
          /\ Range(record_ids) = {i \in Range(rows) : table[i].ok}
          /\ record_ids # <<>>
    /\ (spc = "returned" /\ success) => Range(record_ids) \subseteq acked
    /\ \A i \in DOMAIN table : table[i].sent => table[i].ok /\ i \in acked
    /\ \A i \in Range(rows) : ~table[i].ok => ~Marked(i)

C14_Witness ==
    /\ spc = "sleep"
    /\ success
    /\ Len(rows) = 2
    /\ ~table[rows[1]].ok /\ ~Marked(rows[1])
    /\ table[rows[2]].ok /\ Marked(rows[2])

\* -------------------------------------------------------- SpecStore claims
\* The window a session has in progress, or no window.
NoWindow ==
    [session_id |-> "", start_time |-> 0, end_time |-> 0,
     foot_readings |-> <<>>, accel_readings |-> <<>>]
WindowOf(sid) ==
    IF sid \in DOMAIN active_windows THEN windows[active_windows[sid]]
    ELSE NoWindow
WindowOfNext(sid) ==
    IF sid \in DOMAIN active_windows' THEN windows'[active_windows'[sid]]
    ELSE NoWindow

\* C15: add_reading(session_id, stream, reading) makes a window starting at
\* the reading's timestamp when the session has none, appends the reading
\* to its stream's list and sets end_time to the reading's timestamp; when
\* end_time - start_time >= window_size_ms the window is stored, its entry
\* removed and the new point's id returned; else the window stays active
\* and None is returned.  (The index answering, the timestamp parsing.)
C15_AddReadingStep ==
    (nread' = nread + 1 /\ ~vret'.raised /\ vret'.reading.parses) =>
      LET sid == vret'.sid
          ts == vret'.reading.ts
          had == sid \in DOMAIN active_windows
          start == IF had THEN WindowOf(sid).start_time ELSE ts
          foot == IF vret'.sensor_type = "foot"
                  THEN Append(WindowOf(sid).foot_readings, nread')
                  ELSE WindowOf(sid).foot_readings
          accel == IF vret'.sensor_type = "accel"
                   THEN Append(WindowOf(sid).accel_readings, nread')
                   ELSE WindowOf(sid).accel_readings
      IN /\ vret'.op = "add_reading"
         /\ \A x \in Sessions \ {sid} :
               /\ x \in DOMAIN active_windows' <=> x \in DOMAIN active_windows
               /\ WindowOfNext(x) = WindowOf(x)
         /\ IF ts - start >= window_size_ms
            THEN /\ sid \notin DOMAIN active_windows'
                 /\ Len(points') = Len(points) + 1
                 /\ SubSeq(points', 1, Len(points)) = points
                 /\ LET p == points'[Len(points')]
                    IN /\ vret'.point = p.id /\ p.id # None
                       /\ \A k \in 1..Len(points) : points[k].id # p.id
                       /\ p.session_id = sid
                       /\ p.start_time = start /\ p.end_time = ts
                       /\ p.foot = foot /\ p.accel = accel
            ELSE /\ sid \in DOMAIN active_windows'
                 /\ WindowOfNext(sid) =
                       [session_id |-> sid, start_time |-> start,
                        end_time |-> ts, foot_readings |-> foot,
                        accel_readings |-> accel]
                 /\ vret'.point = None
                 /\ points' = points

C15_AddReading == [][C15_AddReadingStep]_vars

\* A window of two readings stored by the third, which came exactly
\* window_size_ms after the first.
C15_Witness ==
    /\ vret.op = "add_reading"
    /\ vret.point # None
    /\ ~vret.raised
    /\ LET p == points[Len(points)]
       IN /\ p.id = vret.point
          /\ p.end_time - p.start_time = window_size_ms
          /\ p.foot_count = 2 /\ p.accel_count = 1
    /\ vret.sid \notin DOMAIN active_windows

\* C18: when the index write fails while a window is being finalized, by
\* add_reading at the threshold or by flush_session, the in-progress entry
\* of that session is removed all the same: the failed window is not kept
\* for later readings to try again.
C18_FailedWindowDropped ==
    vret.raised => vret.sid \notin DOMAIN active_windows

\* C19: flush_session(session_id) stores what the active window holds, its
\* span below window_size_ms or not, removes the entry and returns the
\* point's id; a window holding no reading is only removed, and None
\* returned; with no active window nothing changes and None is returned.
C19_FlushStep ==
    (vret' # vret /\ vret'.op = "flush_session" /\ ~vret'.raised) =>
      LET sid == vret'.sid
      IN /\ sid \notin DOMAIN active_windows'
         /\ \A x \in Sessions \ {sid} :
               /\ x \in DOMAIN active_windows' <=> x \in DOMAIN active_windows
               /\ WindowOfNext(x) = WindowOf(x)
         /\ IF sid \in DOMAIN active_windows
               /\ Len(WindowOf(sid).foot_readings)
                   + Len(WindowOf(sid).accel_readings) > 0
            THEN /\ Len(points') = Len(points) + 1
                 /\ SubSeq(points', 1, Len(points)) = points
                 /\ LET p == points'[Len(points')]
                    IN /\ vret'.point = p.id /\ p.id # None
                       /\ \A k \in 1..Len(points) : points[k].id # p.id
                       /\ p.session_id = sid
                       /\ p.start_time = WindowOf(sid).start_time
                       /\ p.end_time = WindowOf(sid).end_time
                       /\ p.foot = WindowOf(sid).foot_readings
                       /\ p.accel = WindowOf(sid).accel_readings
            ELSE /\ points' = points
                 /\ vret'.point = None
                 /\ sid \notin DOMAIN active_windows =>
                       active_windows' = active_windows

C19_FlushSession == [][C19_FlushStep]_vars

\* A flush that stored a window whose span is below window_size_ms.
C19_Witness ==
    /\ vret.op = "flush_session"
    /\ vret.point # None
    /\ ~vret.raised
    /\ LET p == points[Len(points)]
       IN /\ p.id = vret.point
          /\ p.end_time - p.start_time < window_size_ms
          /\ p.foot_count + p.accel_count = 2
    /\ vret.sid \notin DOMAIN active_windows

\* C20: a reading whose timestamp does not parse is not rejected and
\* raises no error of its own: the time of the server's clock is taken for
\* its timestamp, as start_time of a window it opens and as end_time, and
\* the reading is appended to the window, which is stored when that time is
\* window_size_ms or more after its start.
C20_FallbackStep ==
    (nread' = nread + 1 /\ vret'.op = "add_reading" /\ ~vret'.reading.parses) =>
      LET sid == vret'.sid
          had == sid \in DOMAIN active_windows
          start == IF had THEN WindowOf(sid).start_time ELSE clock
          in(xs) == nread' \in Range(xs)
          kept(w) ==
             /\ w.end_time = clock
             /\ w.start_time = start
             /\ vret'.sensor_type = "foot" => in(w.foot_readings)
             /\ vret'.sensor_type = "accel" => in(w.accel_readings)
      IN IF clock - start >= window_size_ms
         THEN \/ /\ ~vret'.raised
                 /\ Len(points') = Len(points) + 1
                 /\ LET p == points'[Len(points')]
                    IN /\ p.end_time = clock /\ p.start_time = start
                       /\ vret'.sensor_type = "foot" => in(p.foot)
                       /\ vret'.sensor_type = "accel" => in(p.accel)
              \/ /\ vret'.raised
                 /\ sid \in DOMAIN active_windows'
                 /\ kept(WindowOfNext(sid))
         ELSE /\ ~vret'.raised
              /\ sid \in DOMAIN active_windows'
              /\ kept(WindowOfNext(sid))

C20_Fallback == [][C20_FallbackStep]_vars

\* A reading with no timestamp to parse, received at 500 on the server's
\* clock, closed the window opened at 0: the point ends at the clock's time.
C20_Witness ==
    /\ vret.op = "add_reading"
    /\ ~vret.reading.parses
    /\ ~vret.raised
    /\ vret.point # None
    /\ clock = window_size_ms
    /\ LET p == points[Len(points)]
       IN /\ p.id = vret.point
          /\ p.start_time = 0
          /\ p.end_time = clock
          /\ nread \in Range(p.foot)

\* ------------------------------------------------------- SpecStream claims
\* The readings of a list of points, one point after the other.
RECURSIVE FootOf(_)
FootOf(pts) ==
    IF pts = <<>> THEN <<>> ELSE pts[1].foot \o FootOf(Tail(pts))

\* C16: a session receiving only foot readings 100 ms apart, window_size_ms
\* 500: a point is produced by the reading whose timestamp is 500 ms or
\* more after the window's start (the sixth of the window), one point for
\* each 500 ms of span accumulated; the readings after the last crossing
\* stay in the active window until the next crossing or a flush.
C16_StreamWindows ==
    /\ \A k \in 1..Len(points) :
          LET p == points[k]
          IN /\ p.end_time - p.start_time <= window_size_ms
             /\ p.end_time - p.start_time = 100 * (p.foot_count - 1)
             /\ p.foot_count >= 1 /\ p.accel_count = 0
             /\ p.start_time = StreamTs(p.foot[1])
    /\ FootOf(points) \o WindowOf("s1").foot_readings = [k \in 1..nread |-> k]
    /\ "s1" \in DOMAIN active_windows =>
          /\ WindowOf("s1").end_time - WindowOf("s1").start_time < window_size_ms
          /\ WindowOf("s1").start_time = StreamTs(WindowOf("s1").foot_readings[1])
          /\ WindowOf("s1").end_time = StreamTs(nread)
    /\ (vret.op = "add_reading" /\ vret.point # None) =>
          /\ points[Len(points)].id = vret.point
          /\ points[Len(points)].end_time - points[Len(points)].start_time
                = window_size_ms
          /\ points[Len(points)].foot_count = 6
          /\ "s1" \notin DOMAIN active_windows
    /\ (\A k \in 1..Len(points) : points[k].foot_count = 6) =>
          Len(points) = nread \div 6

\* Two windows stored at their crossings, three later readings pending.
C16_Witness ==
    /\ Len(points) = 2
    /\ \A k \in 1..2 : points[k].end_time - points[k].start_time = window_size_ms
    /\ points[1].foot = <<1, 2, 3, 4, 5, 6>>
    /\ points[2].start_time = 600
    /\ "s1" \in DOMAIN active_windows
    /\ Len(WindowOf("s1").foot_readings) = 2
    /\ vret.op = "add_reading" /\ vret.point = None

\* ------------------------------------------------------ SpecThreads claims
\* The points a reading is stored in.
PointsOf(n) ==
    {k \in 1..Len(points) : n \in Range(points[k].foot) \cup Range(points[k].accel)}

\* C17: concurrent add_reading and flush_session calls for one session
\* behave as if serialized: in every interleaving at most one window of the
\* session is alive, no reading is stored in two points, no call fails
\* because another call removed the in-progress entry, and, the calls all
\* returned, every reading received is in a point or in the active window.
C17_AsIfSerialized ==
    /\ ~vret.raised
    /\ \A sid \in Sessions :
          Cardinality({w \in DOMAIN windows : windows[w].session_id = sid}) <= 1
    /\ \A n \in 1..nread : Cardinality(PointsOf(n)) <= 1
    /\ (\A t \in Threads : thr[t].pc = "free") =>
          \A n \in 1..nread :
             \/ PointsOf(n) # {}
             \/ \E sid \in DOMAIN active_windows :
                   n \in Range(WindowOf(sid).foot_readings)
                           \cup Range(WindowOf(sid).accel_readings)

\* -------------------------------------------------------- the encoder
\* values[:n]
Take(values, n) == SubSeq(values, 1, Min(n, Len(values)))

\* [0.0] * n
Zeros(n) == [j \in 1..n |-> 0]

\* readings[-10:]
RecentOldest(readings) == Take(readings, RecentReadings)
Recent(readings) ==
    SubSeq(readings, Len(readings) - Min(RecentReadings, Len(readings)) + 1,
           Len(readings))

\* d.get(k, 0.0)
Get(d, k) == IF k \in DOMAIN d THEN d[k] ELSE 0

\* _foot_reading_to_vector: data.values, padded with 0.0 or cut to 18.
FootReadingToVector(reading) ==
    LET values == IF Len(reading.values) < FootValues
                  THEN reading.values \o Zeros(FootValues - Len(reading.values))
                  ELSE reading.values
    IN Take(values, FootValues)

\* _accel_reading_to_vector: the nine values, 0.0 for one that is missing.
AccelReadingToVector(reading) ==
    <<Get(reading.acc, "x"), Get(reading.acc, "y"), Get(reading.acc, "z"),
      Get(reading.gyro, "x"), Get(reading.gyro, "y"), Get(reading.gyro, "z"),
      Get(reading.angle, "roll"), Get(reading.angle, "pitch"),
      Get(reading.angle, "yaw")>>

\* for reading in readings: vector.extend(...)
RECURSIVE ExtendFoot(_)
ExtendFoot(readings) ==
    IF readings = <<>> THEN <<>>
    ELSE FootReadingToVector(Head(readings)) \o ExtendFoot(Tail(readings))

RECURSIVE ExtendAccel(_)
ExtendAccel(readings) ==
    IF readings = <<>> THEN <<>>
    ELSE AccelReadingToVector(Head(readings)) \o ExtendAccel(Tail(readings))

\* while len(vector) < total: vector.extend([0.0] * unit)
RECURSIVE Pad(_, _, _)
PadNone(vector, total, unit) == vector
Pad(vector, total, unit) ==
    IF Len(vector) < total THEN Pad(vector \o Zeros(unit), total, unit)
    ELSE vector

\* sum of the squares: np.linalg.norm(arr) ** 2
RECURSIVE SumSq(_)
SumSq(values) ==
    IF values = <<>> THEN 0
    ELSE IF Len(values) = 1 THEN values[1] * values[1]
    ELSE LET half == Len(values) \div 2
         IN SumSq(SubSeq(values, 1, half))
            + SumSq(SubSeq(values, half + 1, Len(values)))

Abs(x) == IF x < 0 THEN 0 - x ELSE x

RECURSIVE SumAbs(_)
SumAbs(values) ==
    IF values = <<>> THEN 0
    ELSE IF Len(values) = 1 THEN Abs(values[1])
    ELSE LET half == Len(values) \div 2
         IN SumAbs(SubSeq(values, 1, half))
            + SumAbs(SubSeq(values, half + 1, Len(values)))

\* _normalize_vector: arr / norm when norm > 0, else arr.  The vector
\* returned is arr[j] / sqrt(over2), j = 1..Len(arr).
NormalizeVectorNoGuard(values) == [arr |-> values, over2 |-> SumSq(values)]
NormalizeVectorL1(values) ==
    [arr |-> values,
     over2 |-> IF SumAbs(values) > 0 THEN SumAbs(values) * SumAbs(values) ELSE 1]
NormalizeVector(values) ==
    LET norm2 == SumSq(values)
    IN IF norm2 > 0 THEN [arr |-> values, over2 |-> norm2]
       ELSE [arr |-> values, over2 |-> 1]

\* foot_vector[:180] + accel_vector[:90], before it is normalized.
FullVector(w) ==
    LET foot_vector ==
            Pad(ExtendFoot(Recent(w.foot_readings)), FootSegment, FootValues)
        accel_vector ==
            Pad(ExtendAccel(Recent(w.accel_readings)), AccelSegment, AccelValues)
    IN Take(foot_vector, FootSegment) \o Take(accel_vector, AccelSegment)

\* _window_to_vector
WindowToVector(w) == NormalizeVector(FullVector(w))

\* The foot readings a hub (or any client) sends: values[18] of pressures,
\* a list shorter or longer, all pressures 0, or short and long in turn.
FootShapes == {"exact", "short", "long", "zero", "mixed"}
FootReading(k, shape) ==
    LET n == CASE shape = "short" -> 3
               [] shape = "long" -> FootValues + 2
               [] shape = "mixed" -> IF k % 2 = 1 THEN 3 ELSE FootValues + 2
               [] OTHER -> FootValues
    IN [values |-> [j \in 1..n |-> IF shape = "zero" THEN 0 ELSE 20 * k + j]]

\* The inertial readings: all nine values, some of them missing, all 0.
AccelShapes == {"full", "partial", "zero"}
AccelReading(k, shape) ==
    CASE shape = "full" ->
            [acc |-> [x |-> 0 - 10 * k, y |-> 10 * k + 1, z |-> 10 * k + 2],
             gyro |-> [x |-> 10 * k + 3, y |-> 10 * k + 4, z |-> 10 * k + 5],
             angle |-> [roll |-> 10 * k + 6, pitch |-> 10 * k + 7,
                        yaw |-> 10 * k + 8]]
      [] shape = "partial" ->
            [acc |-> [x |-> 10 * k], gyro |-> <<>>, angle |-> [yaw |-> 0 - k]]
      [] OTHER ->
            [acc |-> [x |-> 0, y |-> 0, z |-> 0], gyro |-> <<>>, angle |-> <<>>]

\* The dimension the server is configured with: the default, or
\* VECTOR_DIMENSION of the environment.
Dimensions == {DefaultDimension, 128}

\* _store_window(window): the vector of the window, and the point upserted.
store_window ==
    /\ stored = NoPoint
    /\ stored' = [id |-> 1, vector |-> WindowToVector(window),
                  session_id |-> window.session_id,
                  foot_count |-> Len(window.foot_readings),
                  accel_count |-> Len(window.accel_readings)]
    /\ UNCHANGED <<hubVars, sessionVars, windows, active_windows, nwin, nread, points, clock,
                   vret, thr, vector_dimension, window, ipc, iret, repo>>

\* A window complete or flushed, as add_reading and flush_session hand it
\* to _store_window.
InitEncode ==
    /\ InitTable
    /\ SenderOff
    /\ NoStore
    /\ points = <<>>
    /\ vector_dimension \in Dimensions
    /\ \E nf \in 0..MaxFoot, na \in 0..MaxAccel,
          fs \in FootShapes, as \in AccelShapes :
          window = [session_id |-> "s1", start_time |-> 0,
                    end_time |-> window_size_ms,
                    foot_readings |-> [k \in 1..nf |-> FootReading(k, fs)],
                    accel_readings |-> [k \in 1..na |-> AccelReading(k, as)]]
    /\ stored = NoPoint
    /\ ipc = NoCall
    /\ iret = NoResult
    /\ repo = {}
    /\ session_status = <<>>

NextEncode == store_window

SpecEncode == InitEncode /\ [][NextEncode]_vars

\* ------------------------------------------------------------ the index
\* No label: payload "label": None.
NoLabel == "None"

\* A point of the collection, as _store_window upserts it; vector stands
\* for the 270 values.
Point(id, sid, start_time, vector) ==
    [id |-> id, session_id |-> sid, start_time |-> start_time,
     end_time |-> start_time + window_size_ms, label |-> NoLabel,
     vector |-> vector]

\* The points of a collection that a session filter matches, from the
\* offset on, in the order of the collection (of their ids).
Matching(pts, sid, offset) ==
    SelectSeq(pts, LAMBDA p : p.session_id = sid /\ p.id >= offset)

\* client.scroll(scroll_filter=session_id, limit, offset): a page of the
\* points matching, and the id the next page starts at, or None.
Scroll(pts, sid, limit, offset) ==
    LET matching == Matching(pts, sid, offset)
    IN [points |-> Take(matching, limit),
        next_offset |-> IF Len(matching) > limit THEN matching[limit + 1].id
                        ELSE None]

\* if next_offset is None: break
LastPageAlways(next_offset) == TRUE
LastPage(next_offset) == next_offset = None

\* results.sort(key=lambda x: x.get("start_time", 0)): a stable sort.
SortByStartNot(results) == results
SortByStart(results) ==
    LET n == Len(results)
        \* the place of each result in the sorted list (computed once)
        rank == <<>> @@ [i \in 1..n |->
                   Cardinality({j \in 1..n :
                      \/ results[j].start_time < results[i].start_time
                      \/ /\ results[j].start_time = results[i].start_time
                         /\ j <= i})]
        at == [k \in 1..n |-> CHOOSE i \in 1..n : rank[i] = k]
    IN [k \in 1..n |-> results[at[k]]]

\* window_data of get_session_data (include_raw=False).
WindowData(p) ==
    [id |-> p.id, start_time |-> p.start_time, end_time |-> p.end_time,
     label |-> p.label]

\* client.delete(points_selector=ids)
DeletePoints(pts, ids) == SelectSeq(pts, LAMBDA p : p.id \notin ids)

\* get_session_data(session_id) is called: results = [], offset = None.
get_session_data ==
    /\ ipc.op = "idle"
    /\ \E sid \in Sessions \cup {"s3"} :
          ipc' = [op |-> "get_session_data", sid |-> sid, offset |-> None,
                  results |-> <<>>]
    /\ UNCHANGED <<hubVars, sessionVars, windows, active_windows, nwin, nread, points, clock,
                   vret, thr, vector_dimension, window, stored, iret, repo>>

\* delete_session(session_id) is called: points_to_delete = [], offset = None.
delete_session ==
    /\ ipc.op = "idle"
    /\ \E sid \in Sessions \cup {"s3"} :
          ipc' = [op |-> "delete_session", sid |-> sid, offset |-> None,
                  results |-> <<>>]
    /\ UNCHANGED <<hubVars, sessionVars, windows, active_windows, nwin, nread, points, clock,
                   vret, thr, vector_dimension, window, stored, iret, repo>>

\* One turn of the while loop of get_session_data or delete_session: a page
\* is scrolled and added to the results; after the last page the results
\* are sorted and returned, or the points deleted and their number returned.
scroll_page ==
    /\ ipc.op \in {"get_session_data", "delete_session"}
    /\ LET response == Scroll(points, ipc.sid, scroll_limit, ipc.offset)
           results ==
              ipc.results \o
                 [k \in 1..Len(response.points) |->
                    IF ipc.op = "get_session_data"
                    THEN WindowData(response.points[k])
                    ELSE response.points[k].id]
       IN IF LastPage(response.next_offset)
          THEN /\ ipc' = NoCall
               /\ IF ipc.op = "get_session_data"
                  THEN /\ iret' = [op |-> ipc.op, sid |-> ipc.sid, status |-> 200,
                                   val |-> SortByStart(results),
                                   count |-> Len(results)]
                       /\ UNCHANGED points
                  ELSE /\ points' = IF results # <<>>
                                    THEN DeletePoints(points, Range(results))
                                    ELSE points
                       /\ iret' = [op |-> ipc.op, sid |-> ipc.sid, status |-> 200,
                                   val |-> results, count |-> Len(results)]
          ELSE /\ ipc' = [ipc EXCEPT !.offset = response.next_offset,
                                     !.results = results]
               /\ UNCHANGED <<points, iret>>
    /\ UNCHANGED <<hubVars, sessionVars, windows, active_windows, nwin, nread, clock,
                   vret, thr, vector_dimension, window, stored, repo>>

\* The sizes a session's set of points is taken in: none, one, the full
\* pages and one point more than each.
Sizes ==
    {0, 1} \cup {k * scroll_limit : k \in 1..Pages}
           \cup {k * scroll_limit + 1 : k \in 1..Pages}

\* The start times of the points against the order of their ids (uuid4):
\* rising, falling, or three values over and over.
Orders == {"asc", "desc", "ties"}
StartOf(i, total, order) ==
    CASE order = "asc" -> 500 * i
      [] order = "desc" -> 500 * (total - i)
      [] OTHER -> 500 * (i % 3)

\* A collection of n1 points of s1 and n2 of s2, one after the other in
\* turn while both last.
Collection(n1, n2, order) ==
    LET m == Min(n1, n2)
        OfS2(i) == IF i <= 2 * m THEN i % 2 = 0 ELSE n2 > n1
    IN [i \in 1..(n1 + n2) |->
          Point(i, IF OfS2(i) THEN "s2" ELSE "s1",
                StartOf(i, n1 + n2, order), i)]

\* The server with windows of two sessions stored, no call in progress.
InitIndex ==
    /\ InitTable
    /\ SenderOff
    /\ NoStore
    /\ \E n1 \in Sizes, n2 \in {0, OtherPoints}, order \in Orders :
          points = Collection(n1, n2, order)
    /\ vector_dimension = DefaultDimension
    /\ window = EmptyWindow
    /\ stored = NoPoint
    /\ ipc = NoCall
    /\ iret = NoResult
    /\ repo = Sessions
    /\ session_status = [s \in repo |-> "stopped"]

NextIndex ==
    \/ get_session_data
    \/ delete_session
    \/ scroll_page

SpecIndex == InitIndex /\ [][NextIndex]_vars

\* --------------------------------------------------------------- the API
\* The label an annotation gives (one of ACTIVITY_TYPES).
Labels == {"Walking"}

\* The ids of the points of a collection.
PointIds(pts) == {pts[k].id : k \in 1..Len(pts)}

\* client.set_payload(payload={"label": label}, points=[window_id]): the
\* label of that point set, the rest of it left alone.
SetPayloadAll(pts, window_id, label) ==
    [k \in 1..Len(pts) |->
        IF pts[k].id = window_id
        THEN [pts[k] EXCEPT !.label = label, !.vector = 0]
        ELSE pts[k]]
SetPayload(pts, window_id, label) ==
    [k \in 1..Len(pts) |->
        IF pts[k].id = window_id THEN [pts[k] EXCEPT !.label = label]
        ELSE pts[k]]

\* except Exception as e: print(...), and the loop goes on.
ExceptNone(acc) == [acc EXCEPT !.uncaught = TRUE]
ExceptPrint(acc) == acc

\* update_labels(session_id, labels): set_payload for one window id after
\* the other; it raises for an id the collection has no point of, and for
\* every id when the index does not answer (up false).
RECURSIVE UpdateLabels(_, _, _, _)
UpdateLabels(acc, labels, todo, up) ==
    IF todo = {} \/ acc.uncaught THEN acc
    ELSE LET window_id == Least(todo)
             next == IF up /\ window_id \in PointIds(acc.points)
                     THEN [acc EXCEPT
                             !.points = SetPayload(@, window_id, labels[window_id]),
                             !.updated = @ + 1]
                     ELSE ExceptPrint(acc)
         IN UpdateLabels(next, labels, todo \ {window_id}, up)

\* The id -> label maps a client sends: up to two window ids, of points in
\* the collection or of none.
LabelMaps ==
    UNION {[ids -> Labels] :
             ids \in {x \in SUBSET (1..(MaxIndexed + 1)) : Cardinality(x) <= 2}}

\* VectorStore.update_labels(session_id, labels)
update_labels ==
    /\ \E sid \in {"s1", "s3"}, labels \in LabelMaps, up \in BOOLEAN :
          LET r == UpdateLabels([points |-> points, updated |-> 0,
                                 uncaught |-> FALSE],
                                labels, DOMAIN labels, up)
          IN /\ points' = r.points
             /\ iret' = [op |-> "update_labels", sid |-> sid, window_id |-> None,
                         labels |-> labels, status |-> 200, val |-> <<>>,
                         count |-> r.updated, up |-> up, limit |-> 0,
                         uncaught |-> r.uncaught]
    /\ UNCHANGED <<hubVars, sessionVars, windows, active_windows, nwin, nread, clock,
                   vret, thr, vector_dimension, window, stored, ipc, repo>>

\* VectorStore.delete_session, from call to return: the ids of the pages.
RECURSIVE ScrollIds(_, _, _)
ScrollIds(pts, sid, offset) ==
    LET response == Scroll(pts, sid, scroll_limit, offset)
        ids == [k \in 1..Len(response.points) |-> response.points[k].id]
    IN IF LastPage(response.next_offset) THEN ids
       ELSE ids \o ScrollIds(pts, sid, response.next_offset)

\* DELETE /api/sessions/<session_id>
api_delete_session ==
    /\ \E sid \in Sessions \cup {"s3"} :
          IF sid \notin repo
          THEN /\ iret' = [op |-> "api_delete_session", sid |-> sid,
                           window_id |-> None, labels |-> <<>>, status |-> 404,
                           val |-> <<>>, count |-> 0, up |-> TRUE, limit |-> 0,
                           uncaught |-> FALSE]
               /\ UNCHANGED <<points, repo, session_status, current_session_id>>
          ELSE LET points_to_delete == ScrollIds(points, sid, None)
               IN /\ points' = IF points_to_delete # <<>>
                                THEN DeletePoints(points, Range(points_to_delete))
                                ELSE points
                  /\ repo' = repo \ {sid}
                  /\ session_status' = Del(session_status, sid)
                  /\ current_session_id' =
                        IF current_session_id = sid THEN NoSession
                        ELSE current_session_id
                  /\ iret' = [op |-> "api_delete_session", sid |-> sid,
                              window_id |-> None, labels |-> <<>>,
                              status |-> 200, val |-> points_to_delete,
                              count |-> Len(points_to_delete), up |-> TRUE,
                              limit |-> 0, uncaught |-> FALSE]
    /\ UNCHANGED <<hubVars, nsess, req, hnd, emitted, windows, active_windows,
                   nwin, nread, clock, vret, thr, vector_dimension, window,
                   stored, ipc>>

\* The filter of VectorStore.query_similar: session_id and label, each only
\* when given.
Filtered(pts, session_id, label) ==
    SelectSeq(pts, LAMBDA p :
                 /\ session_id # "" => p.session_id = session_id
                 /\ label # "" => p.label = label)

\* client.search(query_vector, limit, query_filter): limit of the points
\* the filter matches, or all of them when they are fewer, ranked by the
\* index: every ranking is taken.
Search(pts, limit, session_id, label) ==
    LET matching == Filtered(pts, session_id, label)
        n == Min(limit, Len(matching))
    IN {hits \in [1..n -> 1..Len(matching)] :
           \A a, b \in 1..n : a # b => hits[a] # hits[b]}

\* [r for r in results if r["id"] != window_id]
ExcludeNothing(results, window_id) == results
ExcludeReference(results, window_id) ==
    SelectSeq(results, LAMBDA r : r.id # window_id)

\* POST /api/query/similar
api_query_similar ==
    /\ \E window_id \in 0..(MaxIndexed + 1), session_filter \in {"", "s1", "s3"},
          label_filter \in {"", "Walking"}, limit \in 0..MaxLimit, up \in BOOLEAN :
          LET answer(status, val) ==
                 [op |-> "api_query_similar", sid |-> session_filter,
                  window_id |-> window_id, labels |-> <<>>, status |-> status,
                  val |-> val, count |-> Len(val), up |-> up, limit |-> limit,
                  label |-> label_filter, uncaught |-> FALSE]
              matching == Filtered(points, session_filter, label_filter)
          IN IF window_id = None THEN iret' = answer(400, <<>>)
             ELSE IF ~up THEN iret' = answer(500, <<>>)
             ELSE IF window_id \notin PointIds(points) THEN iret' = answer(404, <<>>)
             ELSE \E hits \in Search(points, limit + 1, session_filter, label_filter) :
                     LET results == [k \in 1..Len(hits) |->
                                       WindowData(matching[hits[k]])]
                     IN iret' = answer(200,
                                   Take(ExcludeReference(results, window_id), limit))
    /\ UNCHANGED <<hubVars, sessionVars, windows, active_windows, nwin, nread, points, clock,
                   vret, thr, vector_dimension, window, stored, ipc, repo>>

\* A collection of up to MaxIndexed points, of the two sessions in turn, not
\* yet labelled, and the sessions table holding both sessions or one.
InitApi ==
    /\ InitTable
    /\ SenderOff
    /\ NoStore
    /\ \E n \in 0..MaxIndexed :
          points = [i \in 1..n |->
                      Point(i, IF i % 2 = 1 THEN "s1" ELSE "s2", 500 * i, i)]
    /\ vector_dimension = DefaultDimension
    /\ window = EmptyWindow
    /\ stored = NoPoint
    /\ ipc = NoCall
    /\ iret = NoResult
    /\ repo \in {Sessions, {"s1"}}
    /\ session_status = [s \in repo |-> "stopped"]

NextApi ==
    \/ update_labels
    \/ api_delete_session
    \/ api_query_similar

SpecApi == InitApi /\ [][NextApi]_vars

\* ------------------------------------------------- the server's handlers
\* Each socket event and each REST request is handled in a thread of its
\* own (async_mode="threading"); current_session_id is a module global read
\* and written without a lock.  A VectorStore call is taken here from call
\* to return; a reading handler's statements interleave with the requests.

\* The id repo.create gives the k-th session it makes.
SessionIds == <<"s1", "s2", "s3", "s4">>
SessionNo(sid) == CHOOSE k \in 1..Len(SessionIds) : SessionIds[k] = sid

\* The statuses a request can set.
Statuses == {"recording", "completed"}

\* repo.get_active(): the session with status "recording" created last, or
\* None.
GetActive(st) ==
    LET rec == {x \in DOMAIN st : st[x] = "recording"}
    IN IF rec = {} THEN NoSession
       ELSE CHOOSE x \in rec : \A y \in rec : SessionNo(y) <= SessionNo(x)

\* if not current_session_id
NotCurrentNever(cur) == FALSE
NotCurrent(cur) == cur = NoSession

\* The points of a session in the collection, counted.
Stored(pts, sid) == Cardinality({k \in 1..Len(pts) : pts[k].session_id = sid})

\* The store as it is left by a step that does not call it.
storeVars == <<windows, active_windows, nwin, nread, points, vret>>

\* handle_foot_data / handle_accel_data, its first statement: the reading
\* is broadcast to the live clients.
h_receive ==
    /\ hnd.pc = "free"
    /\ emitted < MaxReceived
    /\ \E sensor_type \in {"foot", "accel"}, ts \in Times :
          hnd' = [pc |-> "test", sensor_type |-> sensor_type,
                  reading |-> [parses |-> TRUE, ts |-> ts], sid |-> NoSession]
    /\ emitted' = emitted + 1
    /\ UNCHANGED <<hubVars, indexVars, storeVars, clock, thr, current_session_id,
                   session_status, nsess, req>>

\* if not current_session_id: return
h_test ==
    /\ hnd.pc = "test"
    /\ hnd' = IF NotCurrent(current_session_id) THEN HandlerFree
              ELSE [hnd EXCEPT !.pc = "arg"]
    /\ UNCHANGED <<hubVars, indexVars, storeVars, clock, thr, current_session_id,
                   session_status, nsess, req, emitted>>

\* store.add_reading(current_session_id, ...): the argument is evaluated,
\* the global read a second time.
h_arg ==
    /\ hnd.pc = "arg"
    /\ hnd' = [hnd EXCEPT !.pc = "call", !.sid = current_session_id]
    /\ UNCHANGED <<hubVars, indexVars, storeVars, clock, thr, current_session_id,
                   session_status, nsess, req, emitted>>

\* store.add_reading(...) runs, the index answering, and the handler
\* returns.
h_add ==
    /\ hnd.pc = "call"
    /\ AddReading(hnd.sid, hnd.sensor_type, hnd.reading)
    /\ ~vret'.raised
    /\ hnd' = HandlerFree
    /\ UNCHANGED <<current_session_id, session_status, nsess, req, emitted>>

\* POST /api/sessions, to the auto-stop of the active session: it is
\* flushed and its status set.  (The activity type is a valid one, the
\* index answers.)
r_create_stop ==
    /\ req.op = "none"
    /\ nsess < MaxSessions
    /\ LET active_session == GetActive(session_status)
       IN IF active_session = NoSession
          THEN /\ req' = [req EXCEPT !.op = "create", !.sid = NoSession]
               /\ UNCHANGED <<storeVars, session_status>>
          ELSE /\ FlushSession(active_session)
               /\ ~vret'.raised
               /\ req' = [req EXCEPT !.op = "create", !.sid = active_session]
               /\ session_status' =
                     [session_status EXCEPT ![active_session] = "stopped"]
    /\ UNCHANGED <<hubVars, indexVars, clock, thr, current_session_id, nsess,
                   hnd, emitted>>

\* POST /api/sessions, from repo.create on: the new session is recording
\* and current; 201.
r_create_new ==
    /\ req.op = "create"
    /\ LET id == SessionIds[nsess + 1]
       IN /\ repo' = repo \cup {id}
          /\ session_status' = Put(session_status, id, "recording")
          /\ current_session_id' = id
          /\ nsess' = nsess + 1
          /\ req' = [op |-> "none", sid |-> NoSession, status |-> 201,
                     stopped |-> IF req.sid = NoSession THEN req.stopped
                                 ELSE Put(req.stopped, req.sid,
                                          Stored(points, req.sid))]
    /\ UNCHANGED <<hubVars, storeVars, clock, thr, vector_dimension, window,
                   stored, ipc, iret, hnd, emitted>>

\* POST /api/sessions/<session_id>/stop, to the flush (the index
\* answering): 404 for a session the table does not hold.
r_stop_flush ==
    /\ req.op = "none"
    /\ \E sid \in repo \cup {SessionIds[MaxSessions + 1]} :
          IF sid \notin repo
          THEN /\ req' = [req EXCEPT !.status = 404]
               /\ UNCHANGED storeVars
          ELSE /\ FlushSession(sid)
               /\ ~vret'.raised
               /\ req' = [req EXCEPT !.op = "stop", !.sid = sid]
    /\ UNCHANGED <<hubVars, indexVars, clock, thr, current_session_id,
                   session_status, nsess, hnd, emitted>>

\* POST /api/sessions/<session_id>/stop, from repo.update on: the status
\* set, current_session_id cleared when it names the session; 200.
r_stop_return ==
    /\ req.op = "stop"
    /\ session_status' = [session_status EXCEPT ![req.sid] = "stopped"]
    /\ current_session_id' =
          IF current_session_id = req.sid THEN NoSession ELSE current_session_id
    /\ req' = [op |-> "none", sid |-> NoSession, status |-> 200,
               stopped |-> Put(req.stopped, req.sid, Stored(points, req.sid))]
    /\ UNCHANGED <<hubVars, indexVars, storeVars, clock, thr, nsess, hnd, emitted>>

\* PUT /api/sessions/<session_id> with a body that has no labels: the
\* status set when the body gives one.
r_update_session ==
    /\ req.op = "none"
    /\ \E sid \in repo \cup {SessionIds[MaxSessions + 1]},
          data \in Statuses \cup {"None"} :
          IF sid \notin repo
          THEN /\ req' = [req EXCEPT !.status = 404]
               /\ UNCHANGED session_status
          ELSE /\ session_status' =
                     IF data # "None" THEN [session_status EXCEPT ![sid] = data]
                     ELSE session_status
               /\ req' = [req EXCEPT !.status = 200]
    /\ UNCHANGED <<hubVars, indexVars, storeVars, clock, thr, current_session_id,
                   nsess, hnd, emitted>>

\* DELETE /api/sessions/<session_id>, no other request in progress.
r_delete_session ==
    /\ req.op = "none"
    /\ api_delete_session
    /\ iret'.sid \in repo \cup {SessionIds[MaxSessions + 1]}

\* The server just started on an empty sessions table.
InitServer == InitStore

NextServer ==
    \/ h_receive
    \/ h_test
    \/ h_arg
    \/ h_add
    \/ r_create_stop
    \/ r_create_new
    \/ r_stop_flush
    \/ r_stop_return
    \/ r_update_session
    \/ r_delete_session

SpecServer == InitServer /\ [][NextServer]_vars

\* ------------------------------------------------------ SpecEncode claims
\* The value a foot reading gives for place j of its slot.
FootValue(reading, j) ==
    IF j <= Len(reading.values) THEN reading.values[j] ELSE 0

\* C21: for every window, readings of either stream or none, foot readings
\* of fewer or more than 18 values, the vector _window_to_vector returns,
\* which is the vector of the point _store_window stores, has exactly the
\* configured vector dimension for its length.
C21_VectorLength ==
    stored # NoPoint => Len(stored.vector.arr) = vector_dimension

\* The readings of a list that are encoded, as the claim has it: its last
\* RecentReadings, in the order of their arrival.
LastK(readings) ==
    [i \in 1..Min(RecentReadings, Len(readings)) |->
        readings[Len(readings) - Min(RecentReadings, Len(readings)) + i]]

\* Slot i of the foot segment, and of the inertial segment, of a vector.
FootSlot(arr, i) == SubSeq(arr, (i - 1) * FootValues + 1, i * FootValues)
AccelSlot(arr, i) ==
    SubSeq(arr, FootSegment + (i - 1) * AccelValues + 1,
           FootSegment + i * AccelValues)

\* C22: of each stream the encoder uses the last 10 readings of the list,
\* in the order of their arrival (timestamps play no part); the older ones
\* of a longer list give nothing to the vector; slot i of the stream's
\* segment holds the i-th of the readings kept.
C22_LastTen ==
    stored # NoPoint =>
      LET arr == stored.vector.arr
          foot == LastK(window.foot_readings)
          accel == LastK(window.accel_readings)
      IN /\ Len(arr) = FootSegment + AccelSegment
         /\ \A i \in 1..Len(foot) :
               FootSlot(arr, i) = [j \in 1..FootValues |-> FootValue(foot[i], j)]
         /\ \A i \in 1..Len(accel) :
               AccelSlot(arr, i) = AccelReadingToVector(accel[i])
         /\ \A i \in (Len(foot) + 1)..RecentReadings :
               FootSlot(arr, i) = Zeros(FootValues)
         /\ \A i \in (Len(accel) + 1)..RecentReadings :
               AccelSlot(arr, i) = Zeros(AccelValues)

\* Eleven readings of each stream: the first of each is not in the vector,
\* slot 1 holds the second.
C22_Witness ==
    /\ stored # NoPoint
    /\ Len(window.foot_readings) = RecentReadings + 1
    /\ Len(window.accel_readings) = RecentReadings + 1
    /\ window.foot_readings[1].values[1] # 0
    /\ FootSlot(stored.vector.arr, 1)[1] = window.foot_readings[2].values[1]
    /\ AccelSlot(stored.vector.arr, 1)[2] = window.accel_readings[2].acc.y
    /\ AccelSlot(stored.vector.arr, 1)[2] # window.accel_readings[1].acc.y

\* C23: a window of n < 10 foot readings and no inertial reading: the last
\* 90 entries of the vector are 0, the first n * 18 are the values of the n
\* readings in the order of their arrival (all entries over one factor),
\* and the foot entries after them, up to the 180th, are 0.
C23_Padding ==
    (/\ stored # NoPoint
     /\ Len(window.foot_readings) < RecentReadings
     /\ window.accel_readings = <<>>) =>
      LET arr == stored.vector.arr
          n == Len(window.foot_readings)
      IN /\ Len(arr) = FootSegment + AccelSegment
         /\ \A k \in 1..n, j \in 1..FootValues :
               arr[(k - 1) * FootValues + j] = FootValue(window.foot_readings[k], j)
         /\ \A x \in (n * FootValues + 1)..FootSegment : arr[x] = 0
         /\ \A x \in (FootSegment + 1)..(FootSegment + AccelSegment) : arr[x] = 0
         /\ stored.vector.over2 > 0

\* The case of the spec: three foot readings of 18 values, no inertial one.
C23_Witness ==
    /\ stored # NoPoint
    /\ Len(window.foot_readings) = 3
    /\ window.accel_readings = <<>>
    /\ \A k \in 1..3 : Len(window.foot_readings[k].values) = FootValues
    /\ stored.vector.arr[3 * FootValues] = window.foot_readings[3].values[FootValues]
    /\ stored.vector.arr[3 * FootValues] # 0
    /\ stored.vector.arr[3 * FootValues + 1] = 0

\* A window holding a reading, of either stream.
NonEmpty(w) == w.foot_readings # <<>> \/ w.accel_readings # <<>>

\* The square of the L2 norm of the vector arr / sqrt(over2) is 1.
UnitNorm(v) == v.over2 > 0 /\ SumSq(v.arr) = v.over2

\* C24, as claimed: for any window holding at least one reading in some
\* stream the encoded vector has L2 norm 1.
C24_UnitNormNonEmpty ==
    (stored # NoPoint /\ NonEmpty(window)) => UnitNorm(stored.vector)

\* C24, amended: for any window of whose encoded readings some extracted
\* value is not 0, the encoded vector has L2 norm 1.
C24_UnitNormNonZero ==
    (/\ stored # NoPoint
     /\ \/ \E i \in 1..Len(LastK(window.foot_readings)), j \in 1..FootValues :
              FootValue(LastK(window.foot_readings)[i], j) # 0
        \/ \E i \in 1..Len(LastK(window.accel_readings)), j \in 1..AccelValues :
              AccelReadingToVector(LastK(window.accel_readings)[i])[j] # 0)
      => UnitNorm(stored.vector)

\* A window of both streams, values of both signs, encoded to norm 1.
C24_Witness ==
    /\ stored # NoPoint
    /\ Len(window.foot_readings) = 2
    /\ Len(window.accel_readings) = 2
    /\ \E x \in 1..Len(stored.vector.arr) : stored.vector.arr[x] < 0
    /\ \E x \in 1..FootSegment : stored.vector.arr[x] > 0
    /\ stored.vector.over2 > 1
    /\ SumSq(stored.vector.arr) = stored.vector.over2

\* C25: when the concatenated sub-vectors are all 0 (a window with no
\* reading, or readings whose extracted values are all 0), the vector
\* returned is that zero vector, not divided, and no error is raised.
C25_ZeroVector ==
    (stored # NoPoint /\ SumSq(FullVector(window)) = 0) =>
      /\ stored.vector.arr = Zeros(FootSegment + AccelSegment)
      /\ stored.vector.over2 = 1

\* Readings of both streams, every extracted value 0.
C25_Witness ==
    /\ stored # NoPoint
    /\ Len(window.foot_readings) >= 1
    /\ Len(window.accel_readings) >= 1
    /\ stored.vector.arr = Zeros(FootSegment + AccelSegment)
    /\ stored.vector.over2 = 1

\* ------------------------------------------------------- SpecIndex claims
\* The ids of the points of a session in a collection.
IdsOf(pts, sid) == {pts[k].id : k \in {x \in 1..Len(pts) : pts[x].session_id = sid}}

\* C26: delete_session(X), the collection changed by no one else meanwhile,
\* removes every point whose session_id is X, leaves the points of every
\* other session as they are, and returns the number of points removed; a
\* scroll for X afterwards returns nothing.
C26_DeleteStep ==
    (ipc.op = "delete_session" /\ ipc'.op = "idle") =>
      LET X == ipc.sid
      IN /\ IdsOf(points', X) = {}
         /\ points' = SelectSeq(points, LAMBDA p : p.session_id # X)
         /\ iret'.op = "delete_session"
         /\ iret'.count = Cardinality(IdsOf(points, X))
         /\ iret'.count = Len(points) - Len(points')
         /\ Scroll(points', X, scroll_limit, None) =
               [points |-> <<>>, next_offset |-> None]

C26_DeleteSession == [][C26_DeleteStep]_vars

\* A session of more than Pages full pages deleted, the points of the other
\* session all still there.
C26_Witness ==
    /\ ipc.op = "idle"
    /\ iret.op = "delete_session"
    /\ iret.sid = "s1"
    /\ iret.count = Pages * scroll_limit + 1
    /\ Len(points) = OtherPoints
    /\ \A k \in 1..Len(points) : points[k].session_id = "s2"

\* C27: get_session_data(session_id), the collection not changing, returns
\* every stored point of the session, following the cursor from page to
\* page of 100 until it is None, no point of another session, each once,
\* ordered by start_time ascending.
C27_GetStep ==
    (ipc.op = "get_session_data" /\ ipc'.op = "idle") =>
      LET val == iret'.val
      IN /\ iret'.op = "get_session_data"
         /\ {val[k].id : k \in 1..Len(val)} = IdsOf(points, ipc.sid)
         /\ Len(val) = Cardinality(IdsOf(points, ipc.sid))
         /\ \A k \in 1..Len(val) :
               \E x \in 1..Len(points) :
                  /\ points[x].id = val[k].id
                  /\ points[x].start_time = val[k].start_time
                  /\ points[x].label = val[k].label
         /\ \A k \in 1..(Len(val) - 1) :
               val[k].start_time <= val[k + 1].start_time
         /\ points' = points

C27_GetSessionData == [][C27_GetStep]_vars

\* More than Pages full pages returned, of points whose start times fall as
\* their ids rise, the points of another session among them left out.
C27_Witness ==
    /\ ipc.op = "idle"
    /\ iret.op = "get_session_data"
    /\ iret.count = Pages * scroll_limit + 1
    /\ Len(points) = Pages * scroll_limit + 1 + OtherPoints
    /\ iret.val[1].id > iret.val[2].id
    /\ iret.val[1].start_time < iret.val[2].start_time

\* --------------------------------------------------------- SpecApi claims
\* C28: update_labels changes only the label field of the points named in
\* the id -> label map: their vectors and other payload fields, and all
\* other points, are unchanged; it returns the number of points whose label
\* it set.
C28_UpdateStep ==
    iret'.op = "update_labels" =>
      LET labels == iret'.labels
          named == {k \in 1..Len(points) : points[k].id \in DOMAIN labels}
      IN /\ Len(points') = Len(points)
         /\ \A k \in 1..Len(points) :
               /\ points'[k] = [points[k] EXCEPT !.label = points'[k].label]
               /\ k \notin named => points'[k] = points[k]
               /\ k \in named =>
                     points'[k].label \in {points[k].label, labels[points[k].id]}
         /\ IF iret'.up
            THEN /\ \A k \in named : points'[k].label = labels[points[k].id]
                 /\ iret'.count = Cardinality(named)
            ELSE /\ points' = points
                 /\ iret'.count = 0
         /\ repo' = repo

C28_UpdateLabels == [][C28_UpdateStep]_vars

\* Two ids in the map, one of a point and one of none: one label set, one
\* counted, the point's vector and the other points as they were.
C28_Witness ==
    /\ iret.op = "update_labels"
    /\ iret.up
    /\ Cardinality(DOMAIN iret.labels) = 2
    /\ iret.count = 1
    /\ Len(points) = MaxIndexed
    /\ \E k \in 1..Len(points) :
          /\ points[k].id \in DOMAIN iret.labels
          /\ points[k].label = iret.labels[points[k].id]
          /\ points[k].vector = points[k].id
          /\ \A x \in 1..Len(points) : x # k => points[x].label = NoLabel

\* C29: a similarity query by reference window returns at most limit
\* results, never the reference window itself, and as many as limit when
\* that many other points match the filters: the caller asks the index for
\* limit + 1 neighbours and removes the reference id before cutting to
\* limit.
C29_QueryStep ==
    (iret'.op = "api_query_similar" /\ iret'.status = 200) =>
      LET val == iret'.val
          others == PointIds(Filtered(points, iret'.sid, iret'.label))
                       \ {iret'.window_id}
      IN /\ Len(val) <= iret'.limit
         /\ \A k \in 1..Len(val) : val[k].id # iret'.window_id
         /\ \A k \in 1..Len(val) : val[k].id \in others
         /\ \A a, b \in 1..Len(val) : a # b => val[a].id # val[b].id
         /\ Len(val) = Min(iret'.limit, Cardinality(others))
         /\ iret'.window_id \in PointIds(points)

C30_NotFoundStep ==
    /\ (/\ iret'.op = "api_query_similar"
        /\ iret'.window_id \notin PointIds(points)) =>
          /\ ~iret'.uncaught
          /\ iret'.status =
                IF iret'.window_id = None THEN 400
                ELSE IF iret'.up THEN 404 ELSE 500
          /\ iret'.val = <<>>
          /\ points' = points /\ repo' = repo
    /\ (/\ iret'.op = "api_query_similar"
        /\ iret'.window_id \in PointIds(points)
        /\ iret'.sid = "s3") =>
          /\ ~iret'.uncaught
          /\ iret'.status = IF iret'.up THEN 200 ELSE 500
          /\ iret'.val = <<>>
          /\ points' = points /\ repo' = repo
    /\ iret'.op = "update_labels" =>
          /\ ~iret'.uncaught
          /\ iret'.count <= Cardinality(DOMAIN iret'.labels \cap PointIds(points))
          /\ DOMAIN iret'.labels \cap PointIds(points) = {} =>
                /\ iret'.count = 0
                /\ points' = points /\ repo' = repo
    /\ (iret'.op = "api_delete_session" /\ iret'.sid \notin repo) =>
          /\ ~iret'.uncaught
          /\ iret'.status = 404
          /\ points' = points /\ repo' = repo

C30_NotFound == [][C30_NotFoundStep]_vars

\* A query for a window id the collection has no point of, the index
\* answering: 404, the collection as it was.
C30_Witness ==
    /\ iret.op = "api_query_similar"
    /\ iret.up
    /\ iret.window_id = MaxIndexed + 1
    /\ iret.status = 404
    /\ Len(points) = MaxIndexed
    /\ \A k \in 1..Len(points) : points[k].label = NoLabel

\* ------------------------------------------------- Spec claims, continued
\* C32: whenever process_batch returns True after sending a non-empty batch
\* (the consecutive-failure counter reset), every id of that batch is marked
\* sent in the buffer: success is never reported for a batch whose mark_sent
\* did not take effect.
C32_SuccessStep ==
    (/\ spc = "returned"
     /\ spc' = "sleep"
     /\ success'
     /\ record_ids' # <<>>
     /\ consecutive_failures' = 0) =>
        \A i \in Range(record_ids') : i \in DOMAIN table' /\ table'[i].sent

C32_SuccessMeansMarked == [][C32_SuccessStep]_vars

C40_AuthenticatedImpliesConnected ==
    /\ authenticated => connected
    /\ (eret.op = "emit" /\ ~eret.was_connected) => ~eret.val /\ eret.sent = 0

\* --------------------------------------------------------- SpecBurst claims
\* The active window's readings of both streams.
Pending(sid) ==
    Range(WindowOf(sid).foot_readings) \cup Range(WindowOf(sid).accel_readings)

\* C36: with the index available and the calls for a session made one at a
\* time, every foot or accel reading passed to add_reading for the session
\* is in the raw data of exactly one stored point once flush_session has
\* been called (until then in one point or in the active window, never in
\* both), and each point's foot_count and accel_count are the lengths of
\* its raw foot and accel lists, also when more than 10 readings of a
\* stream were accumulated.
C36_EveryReadingOnce ==
    /\ \A k \in 1..Len(points) :
          LET p == points[k]
          IN /\ p.foot_count = Len(p.foot)
             /\ p.accel_count = Len(p.accel)
             /\ Cardinality(Range(p.foot)) = Len(p.foot)
             /\ Cardinality(Range(p.accel)) = Len(p.accel)
             /\ \A n \in Range(p.foot) : BurstType(n) = "foot"
             /\ \A n \in Range(p.accel) : BurstType(n) = "accel"
             /\ p.session_id = "s1"
    /\ \A n \in 1..nread :
          Cardinality(PointsOf(n)) + (IF n \in Pending("s1") THEN 1 ELSE 0) = 1
    /\ vret.op = "flush_session" =>
          /\ "s1" \notin DOMAIN active_windows
          /\ \A n \in 1..nread : Cardinality(PointsOf(n)) = 1

\* A flush has stored a window of twenty readings, fourteen of them foot
\* readings, after an earlier point.
C36_Witness ==
    /\ vret.op = "flush_session"
    /\ vret.point = 2
    /\ Len(points) = 2
    /\ points[2].foot_count = 14
    /\ points[2].accel_count = 6
    /\ nread = Len(points[1].foot) + Len(points[1].accel) + 20

C38_PointSpan ==
    /\ \A k \in 1..Len(points) : points[k].start_time <= points[k].end_time
    /\ (vret.op = "add_reading" /\ vret.point # None) =>
          points[vret.point].end_time - points[vret.point].start_time
              >= window_size_ms

\* -------------------------------------------------------- SpecServer claims
\* C31: a reading received by the server while no session is current
\* (current_session_id unset) is broadcast to the live clients but is never
\* added to a window and never produces a point; the set of active windows
\* is unchanged.  (The handler returns at its test, add_reading not called;
\* and should the session end between the test and the call, add_reading
\* is given no session and does nothing.)
C31_NoSessionStep ==
    /\ (hnd.pc = "free" /\ hnd'.pc = "test") => emitted' = emitted + 1
    /\ (hnd.pc = "test" /\ hnd' # hnd /\ current_session_id = NoSession) =>
          /\ hnd' = HandlerFree
          /\ UNCHANGED <<windows, active_windows, points, nwin, nread, vret>>
    /\ (hnd.pc = "call" /\ hnd' # hnd /\ hnd.sid = NoSession) =>
          /\ hnd' = HandlerFree
          /\ UNCHANGED <<windows, active_windows, points, nwin, nread>>
          /\ vret'.point = None

C31_NoSessionNoWindow == [][C31_NoSessionStep]_vars

\* A first reading was added to the window of the session then current;
\* the session stopped, a second reading has been received, broadcast and
\* left out.
C31_Witness ==
    /\ hnd = HandlerFree
    /\ emitted = 2
    /\ nread = 1
    /\ current_session_id = NoSession
    /\ req.op = "none"
    /\ "s1" \in DOMAIN req.stopped
    /\ Len(points) = 1 /\ points[1].session_id = "s1"
    /\ active_windows = <<>>

\* C34: after stop_session(S) (or the auto-stop inside create_session) has
\* returned, the assembler holds no active window for S and no point with
\* session_id S is stored afterwards, for every interleaving with reading
\* handlers that read current_session_id concurrently.
C34_NothingAfterStop ==
    \A sid \in DOMAIN req.stopped :
        /\ sid \notin DOMAIN active_windows
        /\ Stored(points, sid) <= req.stopped[sid]

\* C35: after delete_session(S) has returned at the server, no point with
\* session_id S exists in the index and no active window for S remains in
\* the assembler, also when readings for S are handled concurrently with
\* the delete.
C35_NothingAfterDelete ==
    (iret.op = "api_delete_session" /\ iret.status = 200) =>
        /\ Stored(points, iret.sid) = 0
        /\ iret.sid \notin DOMAIN active_windows

\* C39: at most one session has status "recording" at any time, and
\* whenever current_session_id is set it names a session whose status is
\* "recording", after any sequence of create_session, stop_session,
\* update_session and delete_session requests (each request returned).
C39_OneRecording ==
    req.op = "none" =>
        /\ Cardinality({x \in DOMAIN session_status :
                            session_status[x] = "recording"}) <= 1
        /\ current_session_id # NoSession =>
              /\ current_session_id \in DOMAIN session_status
              /\ session_status[current_session_id] = "recording"
====
